---- MODULE Spec2Model ----
(***************************************************************************)
(* The scheduler core of agentiny (packages/core/src/agent.ts): the agent  *)
(* status machine, the polling loop, the per-trigger evaluation protocol,  *)
(* the event ledger and the settle() quiescence waiter.                    *)
(*                                                                         *)
(* Granularity: JavaScript runs the code between two awaits atomically, so *)
(* one step of the model is one such segment.  A loop is suspended at the  *)
(* await of a check, of a condition, of the delay, of an action, or at the *)
(* inter-tick sleep; calls from outside (start, stop, setState, emitEvent, *)
(* settle, a settle timer firing) may come between any two segments.       *)
(***************************************************************************)
EXTENDS Integers, Sequences, FiniteSets, TLC

\* ---------------------------------------------------------------- bounds
MaxLoops == 2     \* successful start() calls in one behaviour
MaxSettle == 2    \* settle() calls in one behaviour
MaxQuiet == 3     \* the idle counter is followed up to this value
MaxVal == 1       \* setState() values are {count: 0..MaxVal}
MaxEmit == 2      \* emitEvent() calls per event between two start() calls
MaxCalls == 4     \* calls from outside (start, stop, setState, emitEvent, settle, on)
MaxTriggers == 3  \* trigger ids generated in one behaviour
MaxList == 3      \* length of the condition lists and action lists tried

Loops == 1..MaxLoops
Values == 0..MaxVal
Thresholds == 1..(MaxQuiet - 1)
QuietArgs == 0..(MaxQuiet - 1)
Events == {"x"}
ObjIds == 0..MaxLoops

\* ------------------------------------------------------- program constants
InitialCount == 1      \* new Agent({ initialState: { count: 1 } })
CascadeLimit == 3      \* when(s => s.count > 0 && s.count < 3, ...)
DefaultTimeout == 10000  \* settle(quietCycles = 2, timeout = 10000)
TestTimeout == 100     \* agent.settle(100, 100)
Timeouts == {TestTimeout, DefaultTimeout}

Idle == "idle"
Running == "running"
Stopped == "stopped"
AgentStatus == {Idle, Running, Stopped}

EmptyMap == [k \in {} |-> 0]

\* A generated trigger id, `__trigger_${n}`.
generateTriggerId(n) == <<"__trigger_", n>>

\* ---------------------------------------------------------------- state
VARIABLES
    status,                  \* _status
    shouldRun,               \* _shouldRun
    stateChanged,            \* _stateChanged
    consecutiveQuietCycles,  \* _consecutiveQuietCycles
    settleResolvers,         \* _settleResolvers: the pending requests, in order
    requests,                \* every settle() call made: threshold, timer, promise
    triggers,                \* _triggers: the registry, in insertion order
    triggerIdCounter,        \* _triggerIdCounter
    returned,                \* history: the ids when(), once() and on() have returned
    eventEmissionCount,      \* _eventEmissionCount
    eventLastSeenByTrigger,  \* _eventLastSeenByTrigger
    eventTriggers,           \* _eventTriggers
    executionLoop,           \* _executionLoop: the loop last spawned, 0 for null
    loops,                   \* the activations of _runExecutionLoop
    stopWaiting,             \* loops a stop() call is awaiting
    stopped,                 \* history: the loops whose tick in progress has seen a
                             \* stop() call
    heap,                    \* the state objects: object id -> count
    cur,                     \* State._value: the current state object
    subscribers,             \* State._subscribers, in subscription order
    notifyCatches,           \* State._notify wraps each callback in try/catch
                             \* (the two copies of the State class differ in this)
    notified,                \* history: the callbacks the last set() called that are
                             \* not the agent's own, in order, with the value given
    errorSink,               \* what onError has been called with, in order
    sink,                    \* _onError: what the configured callback does with an
                             \* error, "records" | "throwsError" | "throwsValue"
    stopResolved,            \* history: the last stop() has resolved, no start() since
    thrown,                  \* what the last settle(), addTrigger() or removeTrigger()
                             \* call from outside threw, "none" if it returned
    fired,                   \* history: fire-once or event trigger id -> runs of its action list
    since,                   \* history: event trigger id -> the emission count of its
                             \* event when on() made it (0 again at start())
    heard,                   \* history: event -> the emitEvent() calls made while Running
                             \* since the last start()
    apart,                   \* history: each emitEvent() of this run came after every
                             \* listener had seen the emissions before it
    calls                    \* history: the calls made from outside so far

vars == <<status, shouldRun, stateChanged, consecutiveQuietCycles, settleResolvers,
          requests, triggers, triggerIdCounter, returned, eventEmissionCount,
          eventLastSeenByTrigger, eventTriggers, executionLoop, loops, stopWaiting,
          stopped,
          heap, cur, subscribers, notifyCatches, notified, errorSink, sink,
          stopResolved, thrown, fired, since, heard, apart, calls>>

\* The whole state as one record, so that the code's helper calls chain.
Cur ==
    [status |-> status, shouldRun |-> shouldRun, stateChanged |-> stateChanged,
     consecutiveQuietCycles |-> consecutiveQuietCycles,
     settleResolvers |-> settleResolvers, requests |-> requests,
     triggers |-> triggers, triggerIdCounter |-> triggerIdCounter,
     returned |-> returned,
     eventEmissionCount |-> eventEmissionCount,
     eventLastSeenByTrigger |-> eventLastSeenByTrigger,
     eventTriggers |-> eventTriggers, executionLoop |-> executionLoop,
     loops |-> loops, stopWaiting |-> stopWaiting, stopped |-> stopped,
     heap |-> heap, cur |-> cur,
     subscribers |-> subscribers, notifyCatches |-> notifyCatches,
     notified |-> notified,
     errorSink |-> errorSink, sink |-> sink, stopResolved |-> stopResolved,
     thrown |-> thrown,
     fired |-> fired, since |-> since, heard |-> heard, apart |-> apart,
     calls |-> calls]

\* ------------------------------------------------------------- helpers
NoTrigger ==
    [id |-> <<"", 0>>, check |-> "none", event |-> "", conditions |-> <<>>,
     actions |-> <<>>, repeat |-> TRUE, delay |-> 0]

\* A loop that is not running: never spawned, or exited.
LoopAt(pc) ==
    [pc |-> pc, stateChangedThisCycle |-> FALSE, snapshot |-> <<>>,
     trigger |-> NoTrigger, state |-> 0, result |-> "none", ci |-> 0, ai |-> 0,
     errors |-> <<>>]

\* The suspension points inside _checkAndExecuteTrigger.
Evaluating == {"check", "cond", "delay", "act"}

InFlight(s) == {l \in Loops : s.loops[l].pc \in Evaluating}

Min(S) == CHOOSE x \in S : \A y \in S : x <= y

RECURSIVE SeqFilter(_, _)
SeqFilter(q, keep) ==
    IF q = <<>> THEN <<>>
    ELSE IF Head(q) \in keep THEN <<Head(q)>> \o SeqFilter(Tail(q), keep)
    ELSE SeqFilter(Tail(q), keep)

Range(q) == {q[i] : i \in 1..Len(q)}

\* Objects no loop holds and that are not the current one are garbage: they
\* are kept at 0 so that two states differing only in garbage are one state.
Collect(s) ==
    LET held == {s.cur} \cup {s.loops[l].state : l \in InFlight(s)}
    IN  [s EXCEPT !.heap = [o \in ObjIds |-> IF o \in held THEN s.heap[o] ELSE 0]]

\* this._onError(error): the callback is called with the error.
onError(s, e) == [s EXCEPT !.errorSink = Append(@, e)]

\* What user code throws that is not an Error: `throw 'oops'`.
RawValues == {"oops"}

\* new Error(String(value))
WrapError(v) == CASE v = "oops" -> "Error: oops"

\* error instanceof Error ? error : new Error(String(error))
normalize(e) == IF e \in RawValues THEN WrapError(e) ELSE e

\* What the callback throws once it has been called, when it throws.
SinkThrows(s) == IF s.sink = "throwsError" THEN "sink" ELSE "oops"

Lookup(m, k) == IF k \in DOMAIN m THEN m[k] ELSE 0

Lookup2(m, k) == IF k \in DOMAIN m THEN m[k] ELSE {}

Has(s, id) == \E i \in 1..Len(s.triggers) : s.triggers[i].id = id

Bool(b) == IF b THEN "true" ELSE "false"

\* !result is false: of the values a condition returns here (true, false, 1,
\* 0) and of "throws", which stands for no value at all.
ToBoolean(v) == v \in {"true", "one"}

\* The registered triggers made by on(event, ...).
Listening(s, event) ==
    {s.triggers[i].id : i \in {j \in 1..Len(s.triggers) :
        s.triggers[j].check = "event" /\ s.triggers[j].event = event}}

\* The emission count of `event` that trigger id has seen.
Watermark(s, event, id) ==
    IF event \in DOMAIN s.eventLastSeenByTrigger
    THEN Lookup(s.eventLastSeenByTrigger[event], id)
    ELSE 0

\* Every listener of `event` has seen all its emissions.
AllSeen(s, event) ==
    \A id \in Listening(s, event) :
        Watermark(s, event, id) = Lookup(s.eventEmissionCount, event)

\* -------------------------------------------------------------- registry
\* Mutant: addTrigger stores the trigger under its id before it looks for
\* a duplicate.
addTriggerOverwrites(s, t) ==
    IF Has(s, t.id)
    THEN [s EXCEPT !.triggers = [i \in DOMAIN @ |-> IF @[i].id = t.id THEN t ELSE @[i]],
                   !.thrown = "DUPLICATE_TRIGGER"]
    ELSE [s EXCEPT !.triggers = Append(@, t)]

\* addTrigger(trigger): throws when the id is registered, else appends.
addTrigger(s, t) ==
    IF Has(s, t.id)
    THEN [s EXCEPT !.thrown = "DUPLICATE_TRIGGER"]
    ELSE [s EXCEPT !.triggers = Append(@, t)]

\* Mutant: removeTrigger leaves the event ledger as it is.
removeTriggerKeepsLedger(s, id) ==
    IF ~Has(s, id)
    THEN [s EXCEPT !.thrown = "TRIGGER_NOT_FOUND"]
    ELSE LET kept == {i \in 1..Len(s.triggers) : s.triggers[i].id # id}
         IN  [s EXCEPT
               !.triggers = SeqFilter(s.triggers, {s.triggers[i] : i \in kept})]

\* removeTrigger(id): throws when the id is not registered; else deletes it
\* from the registry, from every watermark map and from every association
\* set, and drops the association sets left empty.
removeTrigger(s, id) ==
    IF ~Has(s, id)
    THEN [s EXCEPT !.thrown = "TRIGGER_NOT_FOUND"]
    ELSE LET kept == {i \in 1..Len(s.triggers) : s.triggers[i].id # id}
             seen == s.eventLastSeenByTrigger
             assoc == s.eventTriggers
         IN  [s EXCEPT
               !.triggers = SeqFilter(s.triggers, {s.triggers[i] : i \in kept}),
               !.eventLastSeenByTrigger =
                   [e \in DOMAIN seen |->
                       [k \in DOMAIN seen[e] \ {id} |-> seen[e][k]]],
               !.eventTriggers =
                   [e \in {e2 \in DOMAIN assoc : assoc[e2] \ {id} # {}} |->
                       assoc[e] \ {id}]]

\* clearTriggers(): empties the registry and touches nothing else.
clearTriggers(s) == [s EXCEPT !.triggers = <<>>]

\* removeAllEventTriggersForEvent(event): removeTrigger for each id of a copy
\* of the event's association set; a removeTrigger that throws ends the call.
RECURSIVE RemoveEach(_, _)
RemoveEach(s, ids) ==
    IF ids = {} THEN s
    ELSE LET id == CHOOSE x \in ids : TRUE
         IN  IF Has(s, id)
             THEN RemoveEach(removeTrigger(s, id), ids \ {id})
             ELSE removeTrigger(s, id)

removeAllEventTriggersForEvent(s, event) ==
    RemoveEach(s, Lookup2(s.eventTriggers, event))

\* `return triggerId`, reached when addTrigger did not throw.
Return(s, s1, id) ==
    IF Has(s, id) THEN s1 ELSE [s1 EXCEPT !.returned = Append(@, id)]

\* when(check, actions) and when(check, conditions, actions)
when(s, check, conditions, actions) ==
    LET n == s.triggerIdCounter + 1
        id == generateTriggerId(n)
    IN  Return(s, addTrigger([s EXCEPT !.triggerIdCounter = n],
                   [id |-> id, check |-> check, event |-> "",
                    conditions |-> conditions, actions |-> actions,
                    repeat |-> TRUE, delay |-> 0]), id)

\* once(check, actions) and once(check, conditions, actions)
once(s, check, conditions, actions) ==
    LET n == s.triggerIdCounter + 1
        id == generateTriggerId(n)
    IN  Return(s, addTrigger([s EXCEPT !.triggerIdCounter = n],
                   [id |-> id, check |-> check, event |-> "",
                    conditions |-> conditions, actions |-> actions,
                    repeat |-> FALSE, delay |-> 0]), id)

\* on(event, actions): the trigger's check is the event-ledger comparison.
on(s, event, conditions, actions, repeat) ==
    LET n == s.triggerIdCounter + 1
        id == generateTriggerId(n)
        s1 == addTrigger([s EXCEPT !.triggerIdCounter = n],
                   [id |-> id, check |-> "event", event |-> event,
                    conditions |-> conditions, actions |-> actions,
                    repeat |-> repeat, delay |-> 0])
    IN  IF Has(s, id) THEN s1
        ELSE [s1 EXCEPT !.eventTriggers =
                 (event :> (Lookup2(s1.eventTriggers, event) \cup {id})) @@ @,
                        !.returned = Append(@, id),
                        !.since = (id :> Lookup(s.eventEmissionCount, event)) @@ @]

\* --------------------------------------------------------------- settle
\* Mutant: a request is resolved and its timer is left armed.
ResolveKeepsTimer(s, sat) ==
    [s EXCEPT
      !.settleResolvers = SeqFilter(s.settleResolvers, Range(s.settleResolvers) \ sat),
      !.requests = [r \in DOMAIN s.requests |->
          IF r \in sat
          THEN [s.requests[r] EXCEPT !.calls = Append(@, "resolve")]
          ELSE s.requests[r]]]

\* _checkSettleResolvers 402-412, for the requests `sat` whose threshold is
\* met: the timer is cleared, the promise resolved, the request dropped.
Resolve(s, sat) ==
    [s EXCEPT
      !.settleResolvers = SeqFilter(s.settleResolvers, Range(s.settleResolvers) \ sat),
      !.requests = [r \in DOMAIN s.requests |->
          IF r \in sat
          THEN [s.requests[r] EXCEPT !.timeoutId = FALSE,
                                     !.calls = Append(@, "resolve")]
          ELSE s.requests[r]]]

\* Mutant: the threshold compared one tick early.
checkSettleResolversEarly(s) ==
    Resolve(s, {r \in Range(s.settleResolvers) :
                   s.consecutiveQuietCycles + 1 >= s.requests[r].quietCycles})

\* Mutant: one satisfied request releases every pending one.
checkSettleResolversAll(s) ==
    IF \E r \in Range(s.settleResolvers) :
           s.consecutiveQuietCycles >= s.requests[r].quietCycles
    THEN Resolve(s, Range(s.settleResolvers))
    ELSE s

\* _checkSettleResolvers: resolve, and drop from the list, every pending
\* request whose threshold the idle counter has reached.
checkSettleResolvers(s) ==
    Resolve(s, {r \in Range(s.settleResolvers) :
                   s.consecutiveQuietCycles >= s.requests[r].quietCycles})

\* ------------------------------------------------------ the polling loop
\* History: which pending requests have seen the idle counter fall back to 0
\* from a positive value.
SawReset(s) ==
    [r \in DOMAIN s.requests |->
        IF r \in Range(s.settleResolvers) /\ s.consecutiveQuietCycles > 0
        THEN [s.requests[r] EXCEPT !.sawReset = TRUE]
        ELSE s.requests[r]]

\* Mutant: a tick that evaluated leaves the idle counter where it was.
TrackQuietCyclesKeeps(s, l) ==
    LET s1 == IF s.loops[l].stateChangedThisCycle
              THEN [s EXCEPT !.requests = SawReset(s)]
              ELSE checkSettleResolvers([s EXCEPT !.consecutiveQuietCycles = @ + 1])
    IN  [s1 EXCEPT !.loops[l] = LoopAt("sleep"), !.stopped = @ \ {l}]

\* Lines 458-471 of _runExecutionLoop: the idle-tick bookkeeping, up to the
\* inter-tick sleep.
TrackQuietCycles(s, l) ==
    LET s1 == IF s.loops[l].stateChangedThisCycle
              THEN [s EXCEPT !.consecutiveQuietCycles = 0,
                             !.requests = SawReset(s)]
              ELSE checkSettleResolvers([s EXCEPT !.consecutiveQuietCycles = @ + 1])
    IN  [s1 EXCEPT !.loops[l] = LoopAt("sleep"), !.stopped = @ \ {l}]

\* Mutant: the check of an on() trigger leaves its watermark where it was.
EventCheckForgets(s, event, id) ==
    [s |-> s, r |-> Bool(Lookup(s.eventEmissionCount, event) > Watermark(s, event, id))]

\* The check of an on() trigger (agent.ts 631-649): compares the emission
\* counter with the trigger's watermark and advances the watermark.
EventCheck(s, event, id) ==
    LET currentEmissionCount == Lookup(s.eventEmissionCount, event)
        seen == IF event \in DOMAIN s.eventLastSeenByTrigger
                THEN s.eventLastSeenByTrigger
                ELSE (event :> EmptyMap) @@ s.eventLastSeenByTrigger
        lastSeenCount == Lookup(seen[event], id)
    IN  IF currentEmissionCount > lastSeenCount
        THEN [s |-> [s EXCEPT !.eventLastSeenByTrigger =
                        [seen EXCEPT ![event] = (id :> currentEmissionCount) @@ @]],
              r |-> "true"]
        ELSE [s |-> [s EXCEPT !.eventLastSeenByTrigger = seen], r |-> "false"]

\* Mutant: one watermark per event, shared by its listeners.
InvokeCheckShared(s, t, o) ==
    CASE t.check = "cascade" ->
           [s |-> s, r |-> Bool(s.heap[o] > 0 /\ s.heap[o] < CascadeLimit)]
      [] t.check = "positive" -> [s |-> s, r |-> Bool(s.heap[o] > 0)]
      [] t.check = "level1" -> [s |-> s, r |-> Bool(s.heap[o] > 0 /\ s.heap[o] < 2)]
      [] t.check = "level2" -> [s |-> s, r |-> Bool(s.heap[o] > 1)]
      [] t.check = "event" -> EventCheck(s, t.event, <<"", 0>>)
      [] t.check = "throwsValue" -> [s |-> s, r |-> "throwValue"]
      [] OTHER -> [s |-> s, r |-> "throw"]

\* trigger.check(state): the result and the state after the call.
InvokeCheck(s, t, o) ==
    CASE t.check = "cascade" ->
           [s |-> s, r |-> Bool(s.heap[o] > 0 /\ s.heap[o] < CascadeLimit)]
      [] t.check = "positive" -> [s |-> s, r |-> Bool(s.heap[o] > 0)]
      [] t.check = "level1" -> [s |-> s, r |-> Bool(s.heap[o] > 0 /\ s.heap[o] < 2)]
      [] t.check = "level2" -> [s |-> s, r |-> Bool(s.heap[o] > 1)]
      [] t.check = "event" -> EventCheck(s, t.event, t.id)
      [] t.check = "throwsValue" -> [s |-> s, r |-> "throwValue"]
      [] OTHER -> [s |-> s, r |-> "throw"]

\* _checkAndExecuteTrigger up to its first await: reads the state object and
\* calls the check.
checkAndExecuteTrigger(s, l, t) ==
    LET c == InvokeCheck(s, t, s.cur)
    IN  [c.s EXCEPT !.loops[l].pc = "check", !.loops[l].trigger = t,
                    !.loops[l].state = s.cur, !.loops[l].result = c.r,
                    !.loops[l].ci = 0, !.loops[l].ai = 0,
                    !.loops[l].errors = <<>>]

\* The for loop of _runExecutionLoop (449-455): the next trigger of the
\* snapshot, unless the agent is stopping; after the last one, the bookkeeping.
NextTrigger(s, l) ==
    LET q == s.loops[l].snapshot
    IN  IF q = <<>> \/ ~s.shouldRun
        THEN TrackQuietCycles(s, l)
        ELSE checkAndExecuteTrigger([s EXCEPT !.loops[l].snapshot = Tail(q)], l, Head(q))

\* Mutant: every tick walks the triggers, whatever the flag says.
runExecutionLoopAlways(s, l) ==
    IF ~s.shouldRun
    THEN [s EXCEPT !.loops[l] = LoopAt("done")]
    ELSE NextTrigger([s EXCEPT !.stateChanged = FALSE,
                               !.loops[l].stateChangedThisCycle = s.stateChanged,
                               !.loops[l].snapshot = s.triggers], l)

\* The top of the while loop (439-456): leave when asked to stop; otherwise
\* snapshot the flag and, if it is set, clear it and walk the triggers.
runExecutionLoop(s, l) ==
    IF ~s.shouldRun
    THEN [s EXCEPT !.loops[l] = LoopAt("done")]
    ELSE IF s.stateChanged
    THEN NextTrigger([s EXCEPT !.stateChanged = FALSE,
                               !.loops[l].stateChangedThisCycle = TRUE,
                               !.loops[l].snapshot = s.triggers], l)
    ELSE TrackQuietCycles([s EXCEPT !.loops[l].stateChangedThisCycle = FALSE], l)

\* The catch of _runExecutionLoop (472-477), entered with what escaped
\* _checkAndExecuteTrigger, which happens only when the callback throws: an
\* Error is given to the callback, whose throw now leaves the loop's promise
\* rejected; anything else is dropped and the while loop goes on at once.
LoopCatch(s, l, e) ==
    IF e \notin RawValues
    THEN [onError(s, e) EXCEPT !.loops[l] = LoopAt("crashed"), !.stopped = @ \ {l}]
    ELSE runExecutionLoop([s EXCEPT !.loops[l] = LoopAt("sleep"), !.stopped = @ \ {l}], l)

\* The catch of _checkAndExecuteTrigger (537-546): the error, normalized, is
\* given to the callback; the evaluation of the trigger is over.
Catch(s, l, e) ==
    LET s1 == onError(s, normalize(e))
    IN  IF s.sink = "records"
        THEN NextTrigger(s1, l)
        ELSE LoopCatch(s1, l, SinkThrows(s))

\* Mutant: the fire-once trigger is removed without looking whether it is
\* still registered.
FinishActionsUnguarded(s, l) ==
    LET t == s.loops[l].trigger
        errs == s.loops[l].errors
        s1 == [s EXCEPT !.errorSink = @ \o errs]
    IN  IF errs # <<>> /\ s.sink # "records"
        THEN Catch(onError(s, errs[1]), l, SinkThrows(s))
        ELSE IF t.repeat = FALSE /\ ~Has(s1, t.id)
        THEN Catch(s1, l, "TRIGGER_NOT_FOUND")
        ELSE IF t.repeat = FALSE
        THEN NextTrigger(removeTrigger(s1, t.id), l)
        ELSE NextTrigger(s1, l)

\* _checkAndExecuteTrigger 523-536: report the collected errors one by one,
\* remove a fire-once trigger, and return to the loop; a callback that throws
\* at the first error sends its own error to the catch.
FinishActions(s, l) ==
    LET t == s.loops[l].trigger
        errs == s.loops[l].errors
        s1 == [s EXCEPT !.errorSink = @ \o errs]
        s2 == IF t.repeat = FALSE /\ Has(s1, t.id) THEN removeTrigger(s1, t.id) ELSE s1
    IN  IF errs # <<>> /\ s.sink # "records"
        THEN Catch(onError(s, errs[1]), l, SinkThrows(s))
        ELSE NextTrigger(s2, l)

\* executeActions from action i on: call it and await it; past the last one,
\* return the errors.  The action "inc" is (s) => { s.count++ }; "removeSelf"
\* is () => agent.removeTrigger(id) with the trigger's own id, which throws
\* when the trigger is not registered.
executeActions(s, l, i) ==
    LET t == s.loops[l].trigger
        o == s.loops[l].state
    IN  IF i > Len(t.actions)
        THEN FinishActions(s, l)
        ELSE LET s1 == CASE t.actions[i] = "inc" -> [s EXCEPT !.heap[o] = @ + 1]
                          [] t.actions[i] = "removeSelf" /\ Has(s, t.id) ->
                               removeTrigger(s, t.id)
                          [] t.actions[i] = "removeSelf" /\ ~Has(s, t.id) ->
                               [s EXCEPT !.loops[l].errors = Append(@, "TRIGGER_NOT_FOUND")]
                          [] OTHER -> s
             IN  [s1 EXCEPT !.loops[l].pc = "act", !.loops[l].ai = i]

\* _checkAndExecuteTrigger 520-521: the action list is run; the run is counted
\* for a fire-once trigger and for an event trigger.
RunActions(s, l) ==
    LET t == s.loops[l].trigger
        s1 == IF ~t.repeat \/ t.check = "event"
              THEN [s EXCEPT !.fired = (t.id :> (Lookup(s.fired, t.id) + 1)) @@ @]
              ELSE s
    IN  executeActions(s1, l, 1)

\* _checkAndExecuteTrigger 513-521: the delay, then the actions.
ConditionsPassed(s, l) ==
    IF s.loops[l].trigger.delay > 0
    THEN [s EXCEPT !.loops[l].pc = "delay"]
    ELSE RunActions(s, l)

\* evaluateConditions from condition i on: call it and await it; past the
\* last one, all passed.
evaluateConditions(s, l, i) ==
    LET t == s.loops[l].trigger
    IN  IF i > Len(t.conditions)
        THEN ConditionsPassed(s, l)
        ELSE [s EXCEPT !.loops[l].pc = "cond", !.loops[l].ci = i,
                       !.loops[l].result = t.conditions[i]]

\* What a check that throws has thrown: an Error, or a value that is none.
Thrown(result) == IF result = "throwValue" THEN "oops" ELSE "check"

\* Mutant: a check that throws ends the tick.
AfterCheckAborts(s, l) ==
    CASE s.loops[l].result = "true" -> evaluateConditions(s, l, 1)
      [] s.loops[l].result = "false" -> NextTrigger(s, l)
      [] OTHER -> TrackQuietCycles(onError(s, normalize(Thrown(s.loops[l].result))), l)

\* The awaited check has settled: truthy goes on to the conditions, falsy
\* ends the evaluation, a throw goes to the catch.
AfterCheck(s, l) ==
    CASE s.loops[l].result = "true" -> evaluateConditions(s, l, 1)
      [] s.loops[l].result = "false" -> NextTrigger(s, l)
      [] OTHER -> Catch(s, l, Thrown(s.loops[l].result))

\* Mutant: the result of a condition is not looked at.
AfterConditionIgnores(s, l) == evaluateConditions(s, l, s.loops[l].ci + 1)

\* Mutant: a condition that throws counts as one that passed.
AfterConditionLenient(s, l) ==
    IF s.loops[l].result \in {"true", "one", "throws"}
    THEN evaluateConditions(s, l, s.loops[l].ci + 1)
    ELSE NextTrigger(s, l)

\* Mutant: the error of a condition that throws is given to the callback.
AfterConditionReports(s, l) ==
    IF ToBoolean(s.loops[l].result)
    THEN evaluateConditions(s, l, s.loops[l].ci + 1)
    ELSE IF s.loops[l].result = "throws"
    THEN NextTrigger(onError(s, "condition"), l)
    ELSE NextTrigger(s, l)

\* Mutant: conditions that fail give the emission back to an on() trigger.
AfterConditionRewinds(s, l) ==
    LET t == s.loops[l].trigger
        seen == s.eventLastSeenByTrigger
    IN  IF ToBoolean(s.loops[l].result)
        THEN evaluateConditions(s, l, s.loops[l].ci + 1)
        ELSE IF t.check = "event" /\ t.event \in DOMAIN seen
        THEN NextTrigger([s EXCEPT !.eventLastSeenByTrigger[t.event] =
                             [k \in DOMAIN @ \ {t.id} |-> @[k]]], l)
        ELSE NextTrigger(s, l)

\* The awaited condition has settled: a falsy result or an error ends the
\* evaluation, with no report.
AfterCondition(s, l) ==
    IF ToBoolean(s.loops[l].result)
    THEN evaluateConditions(s, l, s.loops[l].ci + 1)
    ELSE NextTrigger(s, l)

\* Mutant: the first action that throws ends the run of the list.
AfterActionStops(s, l) ==
    LET a == s.loops[l].trigger.actions[s.loops[l].ai]
        o == s.loops[l].state
    IN  CASE a = "throws" ->
               FinishActions([s EXCEPT !.loops[l].errors = Append(@, "action")], l)
          [] a = "throwsValue" ->
               FinishActions([s EXCEPT !.loops[l].errors = Append(@, normalize("oops"))], l)
          [] a = "lateInc" -> executeActions([s EXCEPT !.heap[o] = @ + 1], l, s.loops[l].ai + 1)
          [] OTHER -> executeActions(s, l, s.loops[l].ai + 1)

\* The awaited action has settled: an error is collected, the next one runs.
AfterAction(s, l) ==
    LET a == s.loops[l].trigger.actions[s.loops[l].ai]
        o == s.loops[l].state
        s1 == CASE a = "throws" -> [s EXCEPT !.loops[l].errors = Append(@, "action")]
                [] a = "throwsValue" ->
                     [s EXCEPT !.loops[l].errors = Append(@, normalize("oops"))]
                [] a = "lateInc" -> [s EXCEPT !.heap[o] = @ + 1]
                [] OTHER -> s
    IN  executeActions(s1, l, s.loops[l].ai + 1)

\* ------------------------------------------------------------ the calls
\* The object a setState() value is stored in: one no suspended evaluation holds.
FreshObject(s) == Min(ObjIds \ {s.loops[l].state : l \in InFlight(s)})

\* Mutant: setState() stores the value and tells nobody.
setStateSilent(s, v) ==
    LET o == FreshObject(s)
    IN  [s EXCEPT !.heap[o] = v, !.cur = o]

\* State._notify from subscriber i on: each callback is called with the
\* value; the agent's own raises the flag (agent.ts 93-95).  What a callback
\* throws is caught and logged by the copy of the class that has the
\* try/catch, and leaves forEach, _notify, set and setState in the other.
RECURSIVE notify(_, _)
notify(s, i) ==
    IF i > Len(s.subscribers) THEN s
    ELSE LET cb == s.subscribers[i]
             s1 == IF cb = "agent"
                   THEN [s EXCEPT !.stateChanged = TRUE]
                   ELSE [s EXCEPT !.notified = Append(@, <<i, s.heap[s.cur]>>)]
         IN  IF cb = "throws" /\ ~s.notifyCatches
             THEN [s1 EXCEPT !.thrown = "Subscriber error"]
             ELSE notify(s1, i + 1)

\* setState(newState): State.set replaces the value and notifies the
\* subscribers, the agent's own first (agent.ts 116-118).
setState(s, v) ==
    LET o == FreshObject(s)
    IN  notify([s EXCEPT !.heap[o] = v, !.cur = o, !.notified = <<>>], 1)

\* emitEvent(event)
emitEvent(s, event) ==
    [s EXCEPT !.eventEmissionCount =
                  (event :> (Lookup(s.eventEmissionCount, event) + 1)) @@ @,
              !.stateChanged = TRUE,
              !.heard = IF s.status = Running
                        THEN (event :> (Lookup(s.heard, event) + 1)) @@ @
                        ELSE @,
              !.apart = @ /\ AllSeen(s, event)]

Spawned(s) == {l \in Loops : s.loops[l].pc # "none"}

\* start() without the unconditional "evaluate on first tick" mark of line 254.
startUnmarked(s) ==
    IF s.status = Running
    THEN onError(s, "AGENT_ALREADY_RUNNING")
    ELSE LET l == Cardinality(Spawned(s)) + 1
         IN  runExecutionLoop(
               [s EXCEPT !.status = Running,
                         !.shouldRun = TRUE,
                         !.consecutiveQuietCycles = 0,
                         !.eventEmissionCount = EmptyMap,
                         !.eventLastSeenByTrigger = EmptyMap,
                         !.eventTriggers = EmptyMap,
                         !.executionLoop = l,
                         !.loops[l] = LoopAt("sleep"),
                         !.stopResolved = FALSE,
                         !.since = [id \in DOMAIN @ |-> 0],
                         !.heard = EmptyMap,
                         !.apart = TRUE], l)

\* Mutant: start() leaves the emission counters as they are.
startKeepsCounts(s) ==
    IF s.status = Running
    THEN onError(s, "AGENT_ALREADY_RUNNING")
    ELSE LET l == Cardinality(Spawned(s)) + 1
         IN  runExecutionLoop(
               [s EXCEPT !.status = Running,
                         !.shouldRun = TRUE,
                         !.stateChanged = TRUE,
                         !.consecutiveQuietCycles = 0,
                         !.eventLastSeenByTrigger = EmptyMap,
                         !.eventTriggers = EmptyMap,
                         !.executionLoop = l,
                         !.loops[l] = LoopAt("sleep"),
                         !.stopResolved = FALSE,
                         !.since = [id \in DOMAIN @ |-> 0],
                         !.heard = EmptyMap,
                         !.apart = TRUE], l)

\* start(): rejects when Running; otherwise resets the loop's bookkeeping and
\* the event ledger and runs the new loop up to its first await.
start(s) ==
    IF s.status = Running
    THEN onError(s, "AGENT_ALREADY_RUNNING")
    ELSE LET l == Cardinality(Spawned(s)) + 1
         IN  runExecutionLoop(
               [s EXCEPT !.status = Running,
                         !.shouldRun = TRUE,
                         !.stateChanged = TRUE,
                         !.consecutiveQuietCycles = 0,
                         !.eventEmissionCount = EmptyMap,
                         !.eventLastSeenByTrigger = EmptyMap,
                         !.eventTriggers = EmptyMap,
                         !.executionLoop = l,
                         !.loops[l] = LoopAt("sleep"),
                         !.stopResolved = FALSE,
                         !.since = [id \in DOMAIN @ |-> 0],
                         !.heard = EmptyMap,
                         !.apart = TRUE], l)

\* stop() 308-312: await the loop last spawned, if there is one.  The ticks
\* in flight are marked as having seen the call.
AwaitLoop(s, s1) ==
    LET s2 == [s1 EXCEPT !.stopped = @ \cup InFlight(s1)]
    IN  IF s.executionLoop # 0
        THEN [s2 EXCEPT !.stopWaiting = @ \cup {s.executionLoop},
                        !.stopResolved = FALSE]
        ELSE [s2 EXCEPT !.stopResolved = TRUE]

\* stop() 296-306: reject every pending request; `cancel` says whether its
\* timer is cleared.
RejectPending(s, cancel) ==
    [s EXCEPT
      !.requests = [r \in DOMAIN s.requests |->
          IF r \in Range(s.settleResolvers)
          THEN [s.requests[r] EXCEPT !.timeoutId = @ /\ ~cancel,
                                     !.calls = Append(@, "AGENT_STOPPED")]
          ELSE s.requests[r]],
      !.settleResolvers = <<>>]

\* Mutant: stop() returns the agent to Idle.
stopToIdle(s) ==
    IF s.status # Running
    THEN onError(s, "AGENT_NOT_RUNNING")
    ELSE AwaitLoop(s, RejectPending([s EXCEPT !.status = Idle, !.shouldRun = FALSE], TRUE))

\* Mutant: stop() rejects the pending requests and leaves their timers armed.
stopKeepsTimers(s) ==
    IF s.status # Running
    THEN onError(s, "AGENT_NOT_RUNNING")
    ELSE AwaitLoop(s, RejectPending([s EXCEPT !.status = Stopped, !.shouldRun = FALSE], FALSE))

\* stop() up to its await: rejects when not Running; otherwise rejects every
\* pending settle request, cancels its timer, and awaits the loop last spawned.
stop(s) ==
    IF s.status # Running
    THEN onError(s, "AGENT_NOT_RUNNING")
    ELSE AwaitLoop(s, RejectPending([s EXCEPT !.status = Stopped, !.shouldRun = FALSE], TRUE))

\* stop() after its await (line 311): the awaited loop has exited, or its
\* promise is rejected and stop() gives the error to the callback and rethrows.
stopResume(s, l) ==
    IF s.loops[l].pc = "crashed"
    THEN [onError(s, "sink") EXCEPT !.stopWaiting = @ \ {l}]
    ELSE [s EXCEPT !.executionLoop = 0,
                   !.stopWaiting = @ \ {l},
                   !.stopResolved = @ \/ (s.status = Stopped /\ l = Cardinality(Spawned(s)))]

\* The context of an error that carries none.
NoContext == [timeout |-> 0, quietCycles |-> 0, currentQuietCycles |-> 0]

\* A settle() call that returned a promise: its arguments, its timer, what
\* has been called on the promise, and the context of the error it got.
Request(quietCycles, timeout, pending) ==
    [quietCycles |-> quietCycles, timeout |-> timeout, timeoutId |-> pending,
     calls |-> IF pending THEN <<>> ELSE <<"resolve">>, immediate |-> ~pending,
     sawReset |-> FALSE, context |-> NoContext]

\* Mutant: settle() registers a pending request whatever the counter is.
settleAlwaysWaits(s, quietCycles, timeout) ==
    IF s.status # Running THEN [s EXCEPT !.thrown = "AGENT_NOT_RUNNING"]
    ELSE IF quietCycles <= 0 THEN [s EXCEPT !.thrown = "INVALID_ARGUMENT"]
    ELSE [s EXCEPT !.thrown = "none",
                   !.requests = Append(@, Request(quietCycles, timeout, TRUE)),
                   !.settleResolvers = Append(@, Len(s.requests) + 1)]

\* Mutant: settle() tests its argument before the status and registers the
\* request of a call it rejects.
settleRegistersFirst(s, quietCycles, timeout) ==
    LET s1 == [s EXCEPT !.requests = Append(@, Request(quietCycles, timeout, TRUE)),
                        !.settleResolvers = Append(@, Len(s.requests) + 1)]
    IN  IF quietCycles <= 0 THEN [s1 EXCEPT !.thrown = "INVALID_ARGUMENT"]
        ELSE IF s.status # Running THEN [s1 EXCEPT !.thrown = "AGENT_NOT_RUNNING"]
        ELSE [s1 EXCEPT !.thrown = "none"]

\* settle(quietCycles, timeout): throws when not Running or quietCycles <= 0
\* (nothing else changes); resolves at once when the counter is already
\* there; otherwise registers a pending request with its timer.
settle(s, quietCycles, timeout) ==
    IF s.status # Running THEN [s EXCEPT !.thrown = "AGENT_NOT_RUNNING"]
    ELSE IF quietCycles <= 0 THEN [s EXCEPT !.thrown = "INVALID_ARGUMENT"]
    ELSE IF s.consecutiveQuietCycles >= quietCycles
    THEN [s EXCEPT !.thrown = "none",
                   !.requests = Append(@, Request(quietCycles, timeout, FALSE))]
    ELSE [s EXCEPT !.thrown = "none",
                   !.requests = Append(@, Request(quietCycles, timeout, TRUE)),
                   !.settleResolvers = Append(@, Len(s.requests) + 1)]

\* Mutant: the timer callback reports the counter as 0.
settleTimeoutBlank(s, r) ==
    [s EXCEPT !.settleResolvers = SeqFilter(@, Range(@) \ {r}),
              !.requests[r].timeoutId = FALSE,
              !.requests[r].calls = Append(@, "SETTLE_TIMEOUT"),
              !.requests[r].context =
                  [timeout |-> s.requests[r].timeout,
                   quietCycles |-> s.requests[r].quietCycles,
                   currentQuietCycles |-> 0]]

\* The timer callback of settle() (379-389).
settleTimeout(s, r) ==
    [s EXCEPT !.settleResolvers = SeqFilter(@, Range(@) \ {r}),
              !.requests[r].timeoutId = FALSE,
              !.requests[r].calls = Append(@, "SETTLE_TIMEOUT"),
              !.requests[r].context =
                  [timeout |-> s.requests[r].timeout,
                   quietCycles |-> s.requests[r].quietCycles,
                   currentQuietCycles |-> s.consecutiveQuietCycles]]

\* ------------------------------------------------------------- the agent
\* new Agent({ initialState: { count: InitialCount } })
NewAgent ==
    [status |-> Idle, shouldRun |-> FALSE, stateChanged |-> TRUE,
     consecutiveQuietCycles |-> 0, settleResolvers |-> <<>>, requests |-> <<>>,
     triggers |-> <<>>, triggerIdCounter |-> 0, returned |-> <<>>,
     eventEmissionCount |-> EmptyMap,
     eventLastSeenByTrigger |-> EmptyMap, eventTriggers |-> EmptyMap,
     executionLoop |-> 0, loops |-> [l \in Loops |-> LoopAt("none")],
     stopWaiting |-> {}, stopped |-> {}, heap |-> [o \in ObjIds |-> IF o = 0 THEN InitialCount ELSE 0],
     cur |-> 0, subscribers |-> <<"agent">>, notifyCatches |-> FALSE,
     notified |-> <<>>, errorSink |-> <<>>, sink |-> "records", stopResolved |-> FALSE,
     thrown |-> "none",
     fired |-> EmptyMap, since |-> EmptyMap, heard |-> EmptyMap, apart |-> TRUE,
     calls |-> 0]

\* The agents the behaviours start from: the README's cascade, the test's
\* ever-firing trigger, and a guarded, delayed trigger beside an event trigger.
Cascade == when(NewAgent, "cascade", <<>>, <<"inc">>)

Perpetual == when(NewAgent, "positive", <<>>, <<"inc">>)

Guarded ==
    on(addTrigger(NewAgent,
          [id |-> <<"guarded", 0>>, check |-> "positive", event |-> "",
           conditions |-> <<"true">>, actions |-> <<"lateInc">>,
           repeat |-> TRUE, delay |-> 1]),
       "x", <<>>, <<"noop">>, TRUE)

Agents == {Cascade, Perpetual, Guarded}

\* The agents of the trigger protocol: a fire-once trigger, two listeners of
\* one event, and two triggers behind conditions, of which one fails.
Once == once(NewAgent, "positive", <<>>, <<"noop">>)

Listeners ==
    on(on(NewAgent, "x", <<>>, <<"noop">>, TRUE), "x", <<>>, <<"noop">>, TRUE)

Conditional ==
    when(when(NewAgent, "positive", <<"true", "false">>, <<"noop">>),
         "positive", <<"true">>, <<"noop">>)

TriggerAgents == {Once, Listeners, Conditional}

\* The agent of the registry calls: two listeners of 'x' and one of 'y'.
Mixed ==
    on(on(on(NewAgent, "x", <<>>, <<"noop">>, TRUE), "x", <<>>, <<"noop">>, TRUE),
       "y", <<>>, <<"noop">>, TRUE)

RegistryEvents == {"x", "y"}

\* The ids the registry calls are made with: a listener of 'x', the listener
\* of 'y', and an id of the caller's own.
RegistryIds == {generateTriggerId(1), generateTriggerId(3), <<"added", 0>>}

\* { id, check: (s) => s.count > 0, actions: [noop] }
Plain(id) ==
    [id |-> id, check |-> "positive", event |-> "", conditions |-> <<>>,
     actions |-> <<"noop">>, repeat |-> TRUE, delay |-> 0]

\* The agents of the error paths: checks that throw an Error and a value
\* before a trigger whose actions throw; a condition that throws before a
\* trigger whose actions throw; the first with a callback of every kind.
Faulty ==
    when(when(when(NewAgent, "throws", <<>>, <<"noop">>),
              "throwsValue", <<>>, <<"noop">>),
         "positive", <<>>, <<"throws", "noop", "throwsValue">>)

CondFaulty ==
    when(when(NewAgent, "positive", <<"true", "throws", "true">>, <<"noop">>),
         "positive", <<>>, <<"throwsValue", "throws">>)

SinkKinds == {"records", "throwsError", "throwsValue"}

ErrorAgents == {[Faulty EXCEPT !.sink = k] : k \in SinkKinds} \cup {CondFaulty}

\* The agents of the walk through one tick: the two-level cascade of the
\* tests, and a trigger with two conditions, a delay and two actions in
\* front of one that looks at what the first has done.
Chain ==
    when(when(NewAgent, "level1", <<>>, <<"inc">>), "level2", <<>>, <<"noop">>)

Staged ==
    when(addTrigger(NewAgent,
           [id |-> <<"staged", 0>>, check |-> "positive", event |-> "",
            conditions |-> <<"true", "true">>, actions |-> <<"inc", "noop">>,
            repeat |-> TRUE, delay |-> 1]),
         "level2", <<"true">>, <<"noop">>)

WalkAgents == {Chain, Staged}

\* The agents with one fire-once trigger: one whose actions throw, one
\* behind a condition that fails, one behind a condition that throws, and one
\* whose first action removes the trigger itself.
OnceAgents ==
    {once(NewAgent, "positive", <<>>, <<"throws", "noop">>),
     once(NewAgent, "positive", <<"true", "false">>, <<"noop">>),
     once(NewAgent, "positive", <<"throws">>, <<"noop">>),
     once(NewAgent, "positive", <<>>, <<"removeSelf", "noop">>)}

\* The agents of the event ledger: the two listeners of 'x', and a listener
\* of 'x' behind a condition that passes and one that fails.
Picky == on(NewAgent, "x", <<"true", "false">>, <<"noop">>, TRUE)

EventAgents == {Listeners, Picky}

\* Every list of up to MaxList elements of S.
ListsOf(S) == UNION {[1..n -> S] : n \in 0..MaxList}

\* What an action does: return, throw an Error, throw a value that is none.
ActionKinds == {"noop", "throws", "throwsValue"}

\* What a condition does: return true, false, 1 or 0, or throw.
ConditionKinds == {"true", "false", "one", "zero", "throws"}

\* One trigger whose check holds on the initial state, with each action list.
ActionAgents == {when(NewAgent, "positive", <<>>, l) : l \in ListsOf(ActionKinds)}

\* The same with each condition list in front of one action.
ConditionAgents ==
    {when(NewAgent, "positive", l, <<"noop">>) : l \in ListsOf(ConditionKinds)}

\* What a callback given to subscribe() does: return, or throw.
SubscriberKinds == {"records", "throws"}

\* An agent with one trigger, with each list of subscribers after its own,
\* on each copy of the State class.
Subscribed ==
    {[when(NewAgent, "positive", <<>>, <<"noop">>)
         EXCEPT !.subscribers = @ \o l, !.notifyCatches = c] :
        l \in ListsOf(SubscriberKinds), c \in BOOLEAN}

Commit(n) ==
    \E c \in {Collect(n)} :
        /\ status' = c.status
        /\ shouldRun' = c.shouldRun
        /\ stateChanged' = c.stateChanged
        /\ consecutiveQuietCycles' = c.consecutiveQuietCycles
        /\ settleResolvers' = c.settleResolvers
        /\ requests' = c.requests
        /\ triggers' = c.triggers
        /\ triggerIdCounter' = c.triggerIdCounter
        /\ returned' = c.returned
        /\ eventEmissionCount' = c.eventEmissionCount
        /\ eventLastSeenByTrigger' = c.eventLastSeenByTrigger
        /\ eventTriggers' = c.eventTriggers
        /\ executionLoop' = c.executionLoop
        /\ loops' = c.loops
        /\ stopWaiting' = c.stopWaiting
        /\ stopped' = c.stopped
        /\ heap' = c.heap
        /\ cur' = c.cur
        /\ subscribers' = c.subscribers
        /\ notifyCatches' = c.notifyCatches
        /\ notified' = c.notified
        /\ errorSink' = c.errorSink
        /\ sink' = c.sink
        /\ stopResolved' = c.stopResolved
        /\ thrown' = c.thrown
        /\ fired' = c.fired
        /\ since' = c.since
        /\ heard' = c.heard
        /\ apart' = c.apart
        /\ calls' = c.calls

InitOf(agents) ==
    \E a \in agents :
        /\ status = a.status
        /\ shouldRun = a.shouldRun
        /\ stateChanged = a.stateChanged
        /\ consecutiveQuietCycles = a.consecutiveQuietCycles
        /\ settleResolvers = a.settleResolvers
        /\ requests = a.requests
        /\ triggers = a.triggers
        /\ triggerIdCounter = a.triggerIdCounter
        /\ returned = a.returned
        /\ eventEmissionCount = a.eventEmissionCount
        /\ eventLastSeenByTrigger = a.eventLastSeenByTrigger
        /\ eventTriggers = a.eventTriggers
        /\ executionLoop = a.executionLoop
        /\ loops = a.loops
        /\ stopWaiting = a.stopWaiting
        /\ stopped = a.stopped
        /\ heap = a.heap
        /\ cur = a.cur
        /\ subscribers = a.subscribers
        /\ notifyCatches = a.notifyCatches
        /\ notified = a.notified
        /\ errorSink = a.errorSink
        /\ sink = a.sink
        /\ stopResolved = a.stopResolved
        /\ thrown = a.thrown
        /\ fired = a.fired
        /\ since = a.since
        /\ heard = a.heard
        /\ apart = a.apart
        /\ calls = a.calls

Init == InitOf(Agents)

\* ----------------------------------------------------------- the actions
\* A call from outside, counted.
Counted(n) == [n EXCEPT !.calls = @ + 1]

Start ==
    /\ status # Running
    /\ Cardinality(Spawned(Cur)) < MaxLoops
    /\ calls < MaxCalls
    /\ Commit(Counted(start(Cur)))

Stop ==
    /\ status = Running
    /\ calls < MaxCalls
    /\ Commit(Counted(stop(Cur)))

StopResume ==
    \E l \in stopWaiting :
        /\ loops[l].pc \in {"done", "crashed"}
        /\ Commit(stopResume(Cur, l))

SetState ==
    \E v \in Values :
        /\ calls < MaxCalls
        /\ Commit(Counted(setState(Cur, v)))

EmitEvent ==
    \E e \in Events :
        /\ Lookup(eventEmissionCount, e) < MaxEmit
        /\ calls < MaxCalls
        /\ Commit(Counted(emitEvent(Cur, e)))

Settle ==
    \E q \in Thresholds :
        /\ Len(requests) < MaxSettle
        /\ status = Running
        /\ calls < MaxCalls
        /\ Commit(Counted(settle(Cur, q, DefaultTimeout)))

\* on(event, actions), called at any moment.
On ==
    \E e \in Events :
        /\ triggerIdCounter < MaxTriggers
        /\ calls < MaxCalls
        /\ Commit(Counted(on([Cur EXCEPT !.thrown = "none"], e, <<>>, <<"noop">>, TRUE)))

\* when(check, actions), called at any moment.
When ==
    /\ triggerIdCounter < MaxTriggers
    /\ calls < MaxCalls
    /\ Commit(Counted(when([Cur EXCEPT !.thrown = "none"], "positive", <<>>, <<"noop">>)))

\* once(check, actions), called at any moment.
OnceCall ==
    /\ triggerIdCounter < MaxTriggers
    /\ calls < MaxCalls
    /\ Commit(Counted(once([Cur EXCEPT !.thrown = "none"], "positive", <<>>, <<"noop">>)))

\* settle() with any arguments, in any status.
SettleCall ==
    \E q \in QuietArgs, t \in Timeouts :
        /\ Len(requests) < MaxSettle
        /\ calls < MaxCalls
        /\ Commit(Counted(settle(Cur, q, t)))

\* addTrigger(trigger), with a free or a registered id.
AddTrigger ==
    \E id \in RegistryIds :
        /\ calls < MaxCalls
        /\ Commit(Counted(addTrigger([Cur EXCEPT !.thrown = "none"], Plain(id))))

\* removeTrigger(id), with a registered or an unregistered id.
RemoveTrigger ==
    \E id \in RegistryIds :
        /\ calls < MaxCalls
        /\ Commit(Counted(removeTrigger([Cur EXCEPT !.thrown = "none"], id)))

ClearTriggers ==
    /\ calls < MaxCalls
    /\ Commit(Counted(clearTriggers([Cur EXCEPT !.thrown = "none"])))

RemoveAllEventTriggersForEvent ==
    \E e \in RegistryEvents :
        /\ calls < MaxCalls
        /\ Commit(Counted(removeAllEventTriggersForEvent(
                              [Cur EXCEPT !.thrown = "none"], e)))

\* emitEvent(event) of either event.
Emit ==
    \E e \in RegistryEvents :
        /\ Lookup(eventEmissionCount, e) < MaxEmit
        /\ calls < MaxCalls
        /\ Commit(Counted(emitEvent(Cur, e)))

\* setState(newState) on an agent that has subscribers.
SetStateCall ==
    \E v \in Values :
        /\ calls < MaxCalls
        /\ Commit(Counted(setState([Cur EXCEPT !.thrown = "none"], v)))

SettleTimeout ==
    \E r \in DOMAIN requests :
        /\ requests[r].timeoutId
        /\ Commit(settleTimeout(Cur, r))

\* The inter-tick sleep is over: the loop exits or runs its next tick.
Tick ==
    \E l \in Loops :
        /\ loops[l].pc = "sleep"
        /\ (shouldRun /\ ~stateChanged) => consecutiveQuietCycles < MaxQuiet
        /\ Commit(runExecutionLoop(Cur, l))

CheckSettled ==
    \E l \in Loops : loops[l].pc = "check" /\ Commit(AfterCheck(Cur, l))

ConditionSettled ==
    \E l \in Loops : loops[l].pc = "cond" /\ Commit(AfterCondition(Cur, l))

DelayElapsed ==
    \E l \in Loops : loops[l].pc = "delay" /\ Commit(RunActions(Cur, l))

ActionSettled ==
    \E l \in Loops : loops[l].pc = "act" /\ Commit(AfterAction(Cur, l))

LoopStep == Tick \/ CheckSettled \/ ConditionSettled \/ DelayElapsed \/ ActionSettled

Next ==
    \/ Start
    \/ Stop
    \/ StopResume
    \/ SetState
    \/ EmitEvent
    \/ Settle
    \/ SettleTimeout
    \/ Tick
    \/ CheckSettled
    \/ ConditionSettled
    \/ DelayElapsed
    \/ ActionSettled

Spec == Init /\ [][Next]_vars

\* The event loop runs every timer and continuation that is due: a suspended
\* loop resumes, and a stop() whose loop has exited returns.
FairSpec == Spec /\ WF_vars(LoopStep) /\ WF_vars(StopResume)

\* The cascade agent under settle() calls with any arguments, made in any
\* status.
SettleNext ==
    \/ Start
    \/ Stop
    \/ StopResume
    \/ SetState
    \/ SettleCall
    \/ SettleTimeout
    \/ Tick
    \/ CheckSettled
    \/ ActionSettled

SettleSpec == InitOf({Cascade}) /\ [][SettleNext]_vars

\* The trigger protocol: no settle() call.
TriggerNext ==
    \/ Start
    \/ Stop
    \/ StopResume
    \/ SetState
    \/ EmitEvent
    \/ Tick
    \/ CheckSettled
    \/ ConditionSettled
    \/ ActionSettled

TriggerSpec == InitOf(TriggerAgents) /\ [][TriggerNext]_vars

\* The trigger protocol with listeners registered at any moment.
RegisterNext ==
    \/ On
    \/ TriggerNext

RegisterSpec == InitOf(TriggerAgents) /\ [][RegisterNext]_vars

\* The registry calls, made at any moment of the agent's life.
RegistryNext ==
    \/ Start
    \/ Stop
    \/ StopResume
    \/ Emit
    \/ AddTrigger
    \/ RemoveTrigger
    \/ ClearTriggers
    \/ RemoveAllEventTriggersForEvent
    \/ Tick
    \/ CheckSettled
    \/ ActionSettled

RegistrySpec == InitOf({Mixed}) /\ [][RegistryNext]_vars

\* The error paths of the loop.
ErrorNext ==
    \/ Start
    \/ Stop
    \/ StopResume
    \/ SetState
    \/ Tick
    \/ CheckSettled
    \/ ConditionSettled
    \/ ActionSettled

ErrorSpec == InitOf(ErrorAgents) /\ [][ErrorNext]_vars

\* One run of the loop over every action list.
ActionNext ==
    \/ Start
    \/ SetState
    \/ Tick
    \/ CheckSettled
    \/ ActionSettled

ActionSpec == InitOf(ActionAgents) /\ [][ActionNext]_vars

\* One run of the loop over every condition list.
ConditionNext ==
    \/ Start
    \/ SetState
    \/ Tick
    \/ CheckSettled
    \/ ConditionSettled
    \/ ActionSettled

ConditionSpec == InitOf(ConditionAgents) /\ [][ConditionNext]_vars

\* The state container under setState() calls.
StateNext ==
    \/ Start
    \/ SetStateCall
    \/ Tick
    \/ CheckSettled
    \/ ActionSettled

StateSpec == InitOf(Subscribed) /\ [][StateNext]_vars

\* The builders beside addTrigger() and removeTrigger(), on a new agent.
BuilderNext ==
    \/ When
    \/ OnceCall
    \/ On
    \/ AddTrigger
    \/ RemoveTrigger
    \/ Start
    \/ Stop
    \/ StopResume
    \/ Tick
    \/ CheckSettled
    \/ ActionSettled

BuilderSpec == InitOf({NewAgent}) /\ [][BuilderNext]_vars

\* One tick after another, with stop() and start() called at any moment.
WalkNext ==
    \/ Start
    \/ Stop
    \/ StopResume
    \/ SetState
    \/ Tick
    \/ CheckSettled
    \/ ConditionSettled
    \/ DelayElapsed
    \/ ActionSettled

WalkSpec == InitOf(WalkAgents) /\ [][WalkNext]_vars

\* The life of a fire-once trigger.
OnceNext ==
    \/ Start
    \/ Stop
    \/ StopResume
    \/ SetState
    \/ Tick
    \/ CheckSettled
    \/ ConditionSettled
    \/ ActionSettled

OnceSpec == InitOf(OnceAgents) /\ [][OnceNext]_vars

\* The event ledger: emitEvent() at any moment of the agent's life, and no
\* setState().
EventNext ==
    \/ Start
    \/ Stop
    \/ StopResume
    \/ EmitEvent
    \/ Tick
    \/ CheckSettled
    \/ ConditionSettled
    \/ ActionSettled

EventSpec == InitOf(EventAgents) /\ [][EventNext]_vars

\* The idle counter: an agent with no trigger and the cascade, under
\* setState() and settle() calls.
QuietNext ==
    \/ Start
    \/ Stop
    \/ StopResume
    \/ SetState
    \/ Settle
    \/ SettleTimeout
    \/ Tick
    \/ CheckSettled
    \/ ActionSettled

QuietSpec == InitOf({NewAgent, Cascade}) /\ [][QuietNext]_vars

\* =============================================================== claims
InFlightNext == {l \in Loops : loops'[l].pc \in Evaluating}

\* Request r, pending before the step, is resolved by it.
ResolvedByTick(r) ==
    /\ r \in Range(settleResolvers)
    /\ requests'[r].calls = <<"resolve">>

\* The promise of request r is resolved in this step: by a tick, or at once by
\* the settle() call that made it.
ResolvedNow(r) ==
    \/ ResolvedByTick(r)
    \/ r \notin DOMAIN requests /\ requests'[r].calls = <<"resolve">>

\* Loop l calls a check, a condition or an action in this step.
Invokes(l) == loops'[l] # loops[l] /\ loops'[l].pc \in {"check", "cond", "act"}

\* C1: the status is always Idle, Running or Stopped; it starts Idle; it
\* changes only from Idle or Stopped to Running, by start(), and from Running
\* to Stopped, by stop().
StatusStep ==
    /\ status' \in AgentStatus
    /\ status' # status =>
          \/ status \in {Idle, Stopped} /\ status' = Running /\ Start
          \/ status = Running /\ status' = Stopped /\ Stop

C1_StatusMachine == status = Idle /\ [][StatusStep]_vars

\* A restart: the agent runs again after having been stopped.
C1_Witness == status = Running /\ Cardinality(Spawned(Cur)) = 2

\* C2: at most one trigger evaluation (check, conditions, delay or actions)
\* is in flight at any moment.
C2_OneEvaluationInFlight == Cardinality(InFlight(Cur)) <= 1

\* C3: once the last stop() has resolved, and until start() is called, no
\* check, condition or action is called.
C3_NoFiringAfterStop ==
    [][(stopResolved /\ stopResolved') => \A l \in Loops : ~Invokes(l)]_vars

\* C4: when a settle(N) promise resolves, the idle counter is at least N, no
\* state-change flag is pending and no trigger evaluation is in flight (with
\* the flag down and the loop asleep, the counter is the number of idle ticks
\* since the last setState() or emitEvent()).
C4_SettleResolvesQuiet ==
    [][\A r \in DOMAIN requests' :
          ResolvedNow(r) =>
              /\ consecutiveQuietCycles' >= requests'[r].quietCycles
              /\ ~stateChanged'
              /\ InFlightNext = {}]_vars

IsCascade(t) == t.check = "cascade" /\ t.actions = <<"inc">> /\ t.repeat

IsPerpetual(t) == t.check = "positive" /\ t.actions = <<"inc">> /\ t.repeat

\* C5: with the trigger when(s => s.count > 0 && s.count < 3, [s => s.count++])
\* a pending settle() resolves only once the cascade has run to its end: a
\* positive count is then 3.
C5_CascadeReachesFixpoint ==
    [][\A r \in DOMAIN requests :
          (ResolvedByTick(r) /\ (\E i \in 1..Len(triggers) : IsCascade(triggers[i]))
              /\ heap'[cur'] > 0)
          => heap'[cur'] = CascadeLimit]_vars

C7_StopRejectsPending ==
    [][/\ (status = Running /\ status' = Stopped) =>
            /\ settleResolvers' = <<>>
            /\ \A r \in Range(settleResolvers) :
                  /\ requests'[r].calls = <<"AGENT_STOPPED">>
                  /\ ~requests'[r].timeoutId
       /\ \A r \in DOMAIN requests :
            requests[r].calls = <<"AGENT_STOPPED">> =>
                /\ requests'[r] = requests[r]
                /\ r \notin Range(settleResolvers')]_vars

\* Two pending requests were rejected by one stop().
C7_Witness ==
    /\ Len(requests) = 2
    /\ \A r \in DOMAIN requests : requests[r].calls = <<"AGENT_STOPPED">>

\* C8: while a repeating trigger whose check holds and whose action mutates
\* the state on every firing is registered, no pending settle request is
\* resolved.
C8_PerpetualNeverSettles ==
    [][((\E i \in 1..Len(triggers) : IsPerpetual(triggers[i])) /\ heap[cur] > 0)
          => \A r \in DOMAIN requests : ~ResolvedByTick(r)]_vars

\* C9: a tick that resets the idle counter leaves every pending request
\* pending, and a pending request is resolved only by an idle tick that brings
\* the counter, one tick at a time from the reset, to its threshold or above.
C9_ResetKeepsWaiting ==
    [][/\ (loops' # loops /\ consecutiveQuietCycles' = 0 /\ status = Running) =>
            /\ settleResolvers' = settleResolvers
            /\ \A r \in Range(settleResolvers) : requests'[r].calls = <<>>
       /\ \A r \in DOMAIN requests :
            ResolvedByTick(r) =>
                /\ consecutiveQuietCycles' = consecutiveQuietCycles + 1
                /\ consecutiveQuietCycles' >= requests[r].quietCycles]_vars

\* A request that saw the counter reset while it was waiting has been resolved.
C9_Witness ==
    \E r \in DOMAIN requests :
        requests[r].sawReset /\ requests[r].calls = <<"resolve">>

\* C10: while two requests with thresholds a < b are both pending, the one
\* for b is not resolved: the one for a resolves on a strictly earlier tick.
C10_SmallerThresholdFirst ==
    [][\A a, b \in Range(settleResolvers) :
          requests[a].quietCycles < requests[b].quietCycles => ~ResolvedByTick(b)]_vars

\* The request made second, for the smaller threshold, has been resolved by a
\* tick while the one made first is still pending.
C10_Witness ==
    \E a, b \in DOMAIN requests :
        /\ b < a
        /\ requests[a].quietCycles < requests[b].quietCycles
        /\ requests[a].calls = <<"resolve">> /\ ~requests[a].immediate
        /\ b \in Range(settleResolvers)

\* The request a settle() call has just returned, if this step is one.
NewRequest == Len(requests')

\* C11: a settle(N) call made on a Running agent whose idle counter is already
\* at least N returns a promise that is resolved in the call itself: no pending
\* request is registered, no timer is armed and no tick is awaited.
C11_ImmediateWhenQuiet ==
    [][(/\ Len(requests') = Len(requests) + 1
        /\ consecutiveQuietCycles >= requests'[NewRequest].quietCycles)
       => /\ requests'[NewRequest].calls = <<"resolve">>
          /\ ~requests'[NewRequest].timeoutId
          /\ settleResolvers' = settleResolvers
          /\ loops' = loops
          /\ consecutiveQuietCycles' = consecutiveQuietCycles]_vars

\* A settle(2) call was answered at once.
C11_Witness ==
    \E r \in DOMAIN requests :
        /\ requests[r].immediate
        /\ requests[r].quietCycles = 2
        /\ requests[r].calls = <<"resolve">>

\* The timer of pending request r fires in this step: it is disarmed by a step
\* that is neither a stop() nor a tick.
TimerFires(r) ==
    /\ r \in Range(settleResolvers)
    /\ requests[r].timeoutId /\ ~requests'[r].timeoutId
    /\ status' = status
    /\ consecutiveQuietCycles' = consecutiveQuietCycles

\* C12: when the timer of a pending request fires, the request leaves the
\* pending list and is rejected with SETTLE_TIMEOUT, the error carrying the
\* threshold asked for, the timeout given and the idle counter of that moment;
\* a request so rejected gets no other outcome.
C12_TimeoutRejects ==
    [][\A r \in DOMAIN requests :
          /\ TimerFires(r) =>
                /\ r \notin Range(settleResolvers')
                /\ requests'[r].calls = <<"SETTLE_TIMEOUT">>
                /\ requests'[r].context =
                      [timeout |-> requests[r].timeout,
                       quietCycles |-> requests[r].quietCycles,
                       currentQuietCycles |-> consecutiveQuietCycles]
          /\ requests[r].calls = <<"SETTLE_TIMEOUT">> =>
                /\ requests'[r] = requests[r]
                /\ r \notin Range(settleResolvers')]_vars

\* A settle(2, 100) timed out after one idle tick.
C12_Witness ==
    \E r \in DOMAIN requests :
        /\ requests[r].calls = <<"SETTLE_TIMEOUT">>
        /\ requests[r].context =
              [timeout |-> TestTimeout, quietCycles |-> 2, currentQuietCycles |-> 1]

\* This step is the call settle(q, t).
SettleWith(q, t) == Commit(Counted(settle(Cur, q, t)))

\* Nothing of the agent changes in this step but the outcome of the call.
OnlyThrows(e) ==
    /\ thrown' = e
    /\ UNCHANGED <<status, shouldRun, stateChanged, consecutiveQuietCycles,
                   settleResolvers, requests, triggers, triggerIdCounter,
                   returned, eventEmissionCount, eventLastSeenByTrigger, eventTriggers,
                   executionLoop, loops, stopWaiting, stopped, heap, cur, subscribers,
                   notifyCatches, notified, errorSink, sink>>

\* C13: settle() throws AGENT_NOT_RUNNING when the agent is not Running and
\* INVALID_ARGUMENT when it is Running and quietCycles <= 0; a call that throws
\* registers no request, arms no timer and changes nothing of the agent; any
\* other call returns a promise.
C13_SettleThrows ==
    [][\A q \in QuietArgs, t \in Timeouts :
          (calls' = calls + 1 /\ status' = status /\ heap' = heap
                              /\ SettleWith(q, t)) =>
              /\ status # Running => OnlyThrows("AGENT_NOT_RUNNING")
              /\ (status = Running /\ q <= 0) => OnlyThrows("INVALID_ARGUMENT")
              /\ (status = Running /\ q > 0) =>
                    thrown' = "none" /\ Len(requests') = Len(requests) + 1]_vars

\* settle(0) has thrown on a Running agent that has answered an earlier call.
C13_Witness ==
    thrown = "INVALID_ARGUMENT" /\ status = Running /\ Len(requests) = 1

\* Loop l starts the action list of its trigger in this step.
RunsActions(l) ==
    /\ loops'[l].pc = "act" /\ loops'[l].ai = 1
    /\ loops[l].pc # "act"

\* Loop l ends the evaluation of a trigger whose action list it has run.
EndsActions(l) == loops[l].pc = "act" /\ loops'[l].pc # "act"

\* C14: the action list of a fire-once trigger is run at most once, and when
\* its run is over the trigger is no longer registered.
C14_OnceFiresOnce ==
    [][\A l \in Loops :
          /\ (RunsActions(l) /\ ~loops'[l].trigger.repeat)
                => Lookup(fired, loops'[l].trigger.id) = 0
          /\ (EndsActions(l) /\ ~loops[l].trigger.repeat)
                => \A i \in 1..Len(triggers') :
                      triggers'[i].id # loops[l].trigger.id]_vars

\* The agent is in its first run and no stop() has been called.
FirstRun == status = Running /\ Cardinality(Spawned(Cur)) = 1

\* The loop is asleep between two ticks and no change is waiting for it.
Quiescent == loops[1].pc = "sleep" /\ ~stateChanged

\* C15: with two on('x') triggers on a Running agent, and each emitEvent('x')
\* made after the tick that served the one before, each trigger has fired at
\* most once per emission, and exactly once per emission when the tick after
\* the last emission is over.
C15_OncePerEmission ==
    (FirstRun /\ apart /\ Cardinality(Listening(Cur, "x")) = 2) =>
        \A id \in Listening(Cur, "x") :
            /\ Lookup(fired, id) <= Lookup(eventEmissionCount, "x")
            /\ Quiescent => Lookup(fired, id) = Lookup(eventEmissionCount, "x")

\* Two emissions, a tick apart, and both listeners have fired twice.
C15_Witness ==
    /\ FirstRun /\ apart /\ Quiescent
    /\ Cardinality(Listening(Cur, "x")) = 2
    /\ Lookup(eventEmissionCount, "x") = 2
    /\ \A id \in Listening(Cur, "x") : Lookup(fired, id) = 2

\* The state after the step, as a record.
CurNext ==
    [Cur EXCEPT !.triggers = triggers', !.eventLastSeenByTrigger = eventLastSeenByTrigger',
                !.eventEmissionCount = eventEmissionCount']

\* Loop l holds the settled, truthy check of a trigger with no condition and
\* no delay.
CheckPassed(l) ==
    /\ loops[l].pc = "check" /\ loops[l].result = "true"
    /\ loops[l].trigger.conditions = <<>> /\ loops[l].trigger.delay = 0

\* C16: no emission is lost.  In a run with no stop(), when a tick is over and
\* no change is waiting, every listener of 'x' has seen every emission of 'x',
\* however many were made between two ticks and whichever listener saw them
\* first; a listener sees emissions only by a check that returns true, and a
\* check that returned true is followed by the run of the action list.
C16_NoEmissionLost ==
    [][/\ (FirstRun /\ Quiescent) => AllSeen(Cur, "x")
       /\ \A id \in Listening(Cur, "x") :
             Watermark(CurNext, "x", id) > Watermark(Cur, "x", id) =>
                 \E l \in Loops : /\ loops'[l].pc = "check"
                                   /\ loops'[l].trigger.id = id
                                   /\ loops'[l].result = "true"
       /\ \A l \in Loops :
             (CheckPassed(l) /\ loops'[l] # loops[l]) =>
                 /\ RunsActions(l)
                 /\ Lookup(fired', loops[l].trigger.id) =
                        Lookup(fired, loops[l].trigger.id) + 1]_vars

\* Two emissions between two ticks, and both listeners have fired for them.
C16_Witness ==
    /\ FirstRun /\ Quiescent /\ ~apart
    /\ Cardinality(Listening(Cur, "x")) = 2
    /\ Lookup(eventEmissionCount, "x") = 2
    /\ \A id \in Listening(Cur, "x") : Lookup(fired, id) >= 1

\* C17: in a run with no stop(), an on() trigger runs its action list only
\* when its event has been emitted after the trigger was registered.
C17_NoRetroactiveFiring ==
    [][\A l \in Loops :
          (FirstRun /\ RunsActions(l) /\ loops'[l].trigger.check = "event") =>
              Lookup(eventEmissionCount, loops'[l].trigger.event)
                  > Lookup(since, loops'[l].trigger.id)]_vars

\* Loop l is past the check, or past a condition, of the trigger it evaluates.
Proceeds(l) == loops'[l].pc \in {"cond", "delay", "act"}

\* C18: within one evaluation, a condition is called only after a truthy check
\* and after every condition before it returned true, the delay and the
\* actions only after a truthy check and all the conditions; a check that is
\* falsy or throws, or a condition that is false or throws, ends the
\* evaluation.
C18_ActionsNeedCheckAndConditions ==
    [][\A l \in Loops :
          /\ (loops[l].pc = "check" /\ loops'[l] # loops[l]) =>
                IF loops[l].result = "true"
                THEN /\ Proceeds(l)
                     /\ loops'[l].pc = "cond" <=> loops[l].trigger.conditions # <<>>
                     /\ loops'[l].pc = "cond" => loops'[l].ci = 1
                ELSE ~Proceeds(l)
          /\ (loops[l].pc = "cond" /\ loops'[l] # loops[l]) =>
                IF loops[l].result = "true"
                THEN /\ Proceeds(l)
                     /\ loops'[l].pc = "cond"
                          <=> loops[l].ci < Len(loops[l].trigger.conditions)
                     /\ loops'[l].pc = "cond" => loops'[l].ci = loops[l].ci + 1
                ELSE ~Proceeds(l)
          /\ RunsActions(l) => loops[l].pc \in {"check", "cond", "delay"}]_vars

\* The actions of a trigger with a condition are running.
C18_Witness ==
    \E l \in Loops : loops[l].pc = "act" /\ loops[l].trigger.conditions = <<"true">>

\* This step is the call setState({count: v}).
SetStateTo(v) == Commit(Counted(setState(Cur, v)))

\* Loop l takes up the next trigger of its tick: the head of what is left of
\* its snapshot `rest`, against the current state.
TakesUp(l, rest) ==
    /\ loops'[l].pc = "check"
    /\ loops'[l].trigger = Head(rest)
    /\ loops'[l].snapshot = Tail(rest)
    /\ loops'[l].state = cur'

\* Loop l is done with the trigger it was evaluating.
Leaves(l) ==
    /\ loops[l].pc \in Evaluating
    /\ loops'[l].pc \notin Evaluating \/ loops'[l].snapshot # loops[l].snapshot

\* C19: setState() raises the state-change flag; the flag is lowered only by
\* a loop that starts a tick over all the registered triggers; while the agent
\* is not stopping, a tick goes through its triggers one after the other,
\* each against the state current at that moment; and while the agent is
\* Running a loop is alive to run that tick.
C19_SetStateIsEvaluated ==
    [][(\A v \in Values : SetStateTo(v) => stateChanged')
       /\ ((stateChanged /\ ~stateChanged' /\ triggers # <<>>) =>
             \E l \in Loops : /\ loops[l].pc \in {"none", "sleep"}
                               /\ TakesUp(l, triggers))
       /\ (\A l \in Loops :
             (Leaves(l) /\ shouldRun /\ loops[l].snapshot # <<>>)
                 => TakesUp(l, loops[l].snapshot))
       /\ (status' = Running =>
             \E l \in Loops : loops'[l].pc \in Evaluating \cup {"sleep"})]_vars

\* The second of two triggers is evaluated, within a tick, against a state
\* that setState() stored after start().
C19_Witness ==
    \E l \in Loops :
        /\ FirstRun /\ Len(triggers) = 2
        /\ loops[l].pc = "check" /\ loops[l].trigger = triggers[2]
        /\ loops[l].state = cur /\ heap[cur] = 0

\* This step is a successful start(): the agent was not Running and is now.
Started == status # Running /\ status' = Running

\* C20: a successful start(), from Idle or from Stopped and whether or not
\* the state-change flag was up, begins a tick in the loop it spawns: the
\* first registered trigger is checked against the current state (an event
\* trigger against the emission counts start() has just cleared) with the
\* rest of the registered triggers to follow, and a trigger whose check
\* holds, with no condition and no delay, has its actions run next.
C20_FirstTickEvaluatesAll ==
    [][/\ (Started /\ triggers # <<>>) =>
             /\ TakesUp(executionLoop', triggers)
             /\ loops'[executionLoop'].result =
                   IF Head(triggers).check = "event" THEN "false"
                   ELSE InvokeCheck(Cur, Head(triggers), cur).r
       /\ \A l \in Loops :
             (CheckPassed(l) /\ loops'[l] # loops[l]) =>
                 /\ RunsActions(l)
                 /\ loops'[l].trigger = loops[l].trigger]_vars

\* A restart from Stopped with no setState() and no emitEvent() ever called
\* (the three calls are start, stop, start): the second loop runs the actions
\* of a trigger whose check holds on the initial state.
C20_Witness ==
    /\ status = Running /\ calls = 3 /\ Cardinality(Spawned(Cur)) = 2
    /\ heap[cur] = InitialCount /\ Len(triggers) = 2
    /\ loops[2].pc = "act" /\ loops[2].trigger = triggers[2]

\* C21: the state-change flag is raised only by setState(), emitEvent() and
\* start(); a tick that begins with the flag down calls no check, no condition
\* and no action: the loop goes from its sleep to its next sleep (or exits),
\* nothing fires and nothing reaches the error sink.
C21_IdleTickEvaluatesNothing ==
    [][/\ (~stateChanged /\ stateChanged') => (SetState \/ EmitEvent \/ Start)
       /\ \A l \in Loops :
             (loops[l].pc = "sleep" /\ ~stateChanged /\ loops'[l] # loops[l]) =>
                 /\ loops'[l].pc \in {"sleep", "done"}
                 /\ ~Invokes(l)
                 /\ fired' = fired /\ errorSink' = errorSink]_vars

\* An idle tick has been run by an agent that has triggers: the idle counter
\* has been raised and the loop sleeps again.
C21_Witness ==
    /\ status = Running /\ triggers # <<>> /\ ~stateChanged
    /\ consecutiveQuietCycles >= 1
    /\ \E l \in Loops : loops[l].pc = "sleep"

\* This step is the call addTrigger({ id, ... }).
AddWith(id) ==
    /\ calls' = calls + 1
    /\ Commit(Counted(addTrigger([Cur EXCEPT !.thrown = "none"], Plain(id))))

\* This step is the call removeTrigger(id).
RemoveWith(id) ==
    /\ calls' = calls + 1
    /\ Commit(Counted(removeTrigger([Cur EXCEPT !.thrown = "none"], id)))

\* C22: addTrigger with a registered id throws DUPLICATE_TRIGGER and
\* removeTrigger with an unregistered id throws TRIGGER_NOT_FOUND; the call
\* that throws leaves the registry, the event associations, the watermarks
\* and everything else of the agent as they were.
C22_RegistryCallsThrow ==
    [][\A id \in RegistryIds :
          /\ (AddWith(id) /\ Has(Cur, id)) => OnlyThrows("DUPLICATE_TRIGGER")
          /\ (RemoveWith(id) /\ ~Has(Cur, id)) => OnlyThrows("TRIGGER_NOT_FOUND")
          /\ ((AddWith(id) /\ ~Has(Cur, id)) \/ (RemoveWith(id) /\ Has(Cur, id)))
                => thrown' = "none"]_vars

\* addTrigger has thrown for a duplicate on a Running agent whose listeners
\* have watermarks.
C22_Witness ==
    /\ thrown = "DUPLICATE_TRIGGER" /\ status = Running
    /\ \E e \in DOMAIN eventLastSeenByTrigger : eventLastSeenByTrigger[e] # EmptyMap

\* The watermark maps after the step are those before it without id.
WatermarksWithout(id) ==
    /\ DOMAIN eventLastSeenByTrigger' = DOMAIN eventLastSeenByTrigger
    /\ \A e \in DOMAIN eventLastSeenByTrigger :
          /\ DOMAIN eventLastSeenByTrigger'[e] = DOMAIN eventLastSeenByTrigger[e] \ {id}
          /\ \A k \in DOMAIN eventLastSeenByTrigger'[e] :
                eventLastSeenByTrigger'[e][k] = eventLastSeenByTrigger[e][k]

\* The association sets after the step are those before it without id.
AssociationsWithout(id) ==
    /\ \A e \in DOMAIN eventTriggers' : id \notin eventTriggers'[e]
    /\ \A e \in DOMAIN eventTriggers :
          Lookup2(eventTriggers', e) = eventTriggers[e] \ {id}
    /\ DOMAIN eventTriggers' \subseteq DOMAIN eventTriggers

\* The registry after the step is the one before it without id, in order.
RegistryWithout(id) ==
    /\ \A i \in 1..Len(triggers') : triggers'[i].id # id
    /\ triggers' = SeqFilter(triggers, {t \in Range(triggers) : t.id # id})

\* C23: a removeTrigger(id) that succeeds leaves id in no place of the
\* registry, of the association sets and of the watermark maps, and leaves
\* every other trigger's registration, associations and watermarks as they
\* were.
C23_RemoveTriggerPurges ==
    [][\A id \in RegistryIds :
          (RemoveWith(id) /\ Has(Cur, id)) =>
              /\ RegistryWithout(id)
              /\ AssociationsWithout(id)
              /\ WatermarksWithout(id)
              /\ eventEmissionCount' = eventEmissionCount]_vars

\* The first listener of 'x' has fired for an emission, so it had a watermark,
\* and has been removed since; the second listener keeps its watermark.
C23_Witness ==
    /\ status = Running /\ thrown = "none"
    /\ Lookup(fired, generateTriggerId(1)) = 1
    /\ ~Has(Cur, generateTriggerId(1)) /\ Has(Cur, generateTriggerId(2))
    /\ Watermark(Cur, "x", generateTriggerId(2)) = 1

\* This step is the call removeAllEventTriggersForEvent(e).
RemoveAllWith(e) ==
    /\ calls' = calls + 1
    /\ Commit(Counted(removeAllEventTriggersForEvent([Cur EXCEPT !.thrown = "none"], e)))

\* The registered triggers made by on(e, ...), after the step.
ListeningNext(e) ==
    {triggers'[i].id : i \in {j \in 1..Len(triggers') :
        triggers'[j].check = "event" /\ triggers'[j].event = e}}

\* C24: when removeAllEventTriggersForEvent(e) returns, no trigger made by
\* on(e, ...) is registered, and the triggers of the other events are the
\* registered ones they were; this in every state of the agent.
C24_RemoveAllRemoves ==
    [][\A e \in RegistryEvents :
          RemoveAllWith(e) =>
              /\ ListeningNext(e) = {}
              /\ \A e2 \in RegistryEvents \ {e} :
                    ListeningNext(e2) = Listening(Cur, e2)]_vars

\* Loop l holds the settled check of a trigger, and the check has thrown.
CheckThrew(l) ==
    /\ loops[l].pc = "check" /\ loops[l].result \in {"throw", "throwValue"}
    /\ loops'[l] # loops[l]

\* After the step loop l is at the next trigger of its tick or, the tick
\* being over or the agent stopping, asleep.
GoesOn(l) ==
    IF shouldRun /\ loops[l].snapshot # <<>>
    THEN TakesUp(l, loops[l].snapshot)
    ELSE loops'[l].pc = "sleep"

\* C25: with an error callback that returns, a check that throws has its
\* error given to the callback, as it is when it is an Error and wrapped in
\* an Error when it is not; neither the conditions nor the actions of the
\* trigger are run; the loop goes on with the triggers that remain in the
\* tick, and sleeps after the last one.
C25_CheckErrorIsReported ==
    [][\A l \in Loops :
          (CheckThrew(l) /\ sink = "records") =>
              /\ errorSink' = Append(errorSink,
                     IF loops[l].result = "throw" THEN "check" ELSE "Error: oops")
              /\ GoesOn(l)
              /\ fired' = fired /\ cur' = cur /\ heap'[cur] = heap[cur]]_vars

\* Both throwing checks have been reported and the trigger after them, of
\* the same tick, runs its actions.
C25_Witness ==
    /\ sink = "records" /\ errorSink = <<"check", "Error: oops">>
    /\ Len(triggers) = 3
    /\ \E l \in Loops : loops[l].pc = "act" /\ loops[l].trigger = triggers[3]

\* The errors a run of the action list `acts` collects: one for each action
\* that throws, in list order, a thrown value that is no Error wrapped in one.
RECURSIVE ErrorsOf(_)
ErrorsOf(acts) ==
    IF acts = <<>> THEN <<>>
    ELSE (CASE Head(acts) = "throws" -> <<"action">>
            [] Head(acts) = "throwsValue" -> <<"Error: oops">>
            [] OTHER -> <<>>) \o ErrorsOf(Tail(acts))

\* C26: a firing calls the actions of the list one after the other, from the
\* first to the last, each once, whatever the earlier ones threw; the errors
\* collected so far are those of the actions that have thrown, in order; after
\* the last action each collected error is given to the callback, in order.
C26_EveryActionRuns ==
    [][\A l \in Loops :
          /\ (loops[l].pc # "act" /\ loops'[l].pc = "act") =>
                loops'[l].ai = 1 /\ loops'[l].errors = <<>>
          /\ (loops[l].pc = "act" /\ loops'[l] # loops[l]) =>
                LET t == loops[l].trigger
                    i == loops[l].ai
                IN  IF i < Len(t.actions)
                    THEN /\ loops'[l].pc = "act" /\ loops'[l].trigger = t
                         /\ loops'[l].ai = i + 1
                         /\ loops'[l].errors = ErrorsOf(SubSeq(t.actions, 1, i))
                         /\ errorSink' = errorSink
                    ELSE /\ loops'[l].pc # "act"
                         /\ errorSink' = errorSink \o ErrorsOf(t.actions)]_vars

\* The list [throws, returns, throws a string] has been run to its end once:
\* two errors, in order, the second one wrapped.
C26_Witness ==
    /\ Len(triggers) = 1 /\ triggers[1].actions = <<"throws", "noop", "throwsValue">>
    /\ errorSink = <<"action", "Error: oops">>
    /\ loops[1].pc = "sleep"

\* The results of a condition that let the evaluation go on.
Truthy == {"true", "one"}

\* Loop l is in a step of its own.
Moves(l) == loops'[l] # loops[l]

\* C27: evaluateConditions answers true, and the actions follow, iff the list
\* is empty or every condition returned a truthy value; the conditions are
\* called in order from the first; at the first one that returns a falsy
\* value or throws the answer is false: no later condition is called and the
\* actions are not run.
C27_ConditionsShortCircuit ==
    [][\A l \in Loops :
          /\ (loops[l].pc = "check" /\ loops[l].result = "true" /\ Moves(l)) =>
                IF loops[l].trigger.conditions = <<>>
                THEN RunsActions(l)
                ELSE loops'[l].pc = "cond" /\ loops'[l].ci = 1
          /\ (loops[l].pc = "cond" /\ Moves(l)) =>
                LET t == loops[l].trigger
                    i == loops[l].ci
                IN  IF t.conditions[i] \in Truthy
                    THEN IF i < Len(t.conditions)
                         THEN /\ loops'[l].pc = "cond" /\ loops'[l].ci = i + 1
                              /\ loops'[l].trigger = t
                         ELSE RunsActions(l) /\ loops'[l].trigger = t
                    ELSE loops'[l].pc \notin {"cond", "delay", "act"}
          /\ RunsActions(l) =>
                \A j \in 1..Len(loops'[l].trigger.conditions) :
                    loops'[l].trigger.conditions[j] \in Truthy]_vars

\* The tick over the list [returns 1, throws, returns true] is over: the loop
\* sleeps and no change is waiting.
C27_Witness ==
    /\ status = Running /\ ~stateChanged /\ loops[1].pc = "sleep"
    /\ Len(triggers) = 1 /\ triggers[1].conditions = <<"one", "throws", "true">>

\* Loop l holds the settled last action of a list in which an action threw.
LastActionOfFailedRun(l) ==
    /\ loops[l].pc = "act" /\ Moves(l)
    /\ loops[l].ai = Len(loops[l].trigger.actions)
    /\ ErrorsOf(loops[l].trigger.actions) # <<>>

C29_LoopSurvivesErrors ==
    status = Running => \E l \in Loops : loops[l].pc \in Evaluating \cup {"sleep"}

\* This step is the call setState({count: v}) of an agent with subscribers.
SetWith(v) ==
    /\ calls' = calls + 1
    /\ Commit(Counted(setState([Cur EXCEPT !.thrown = "none"], v)))

\* C30: set(v) replaces the value and calls every subscriber with v, in
\* subscription order, whatever the earlier subscribers threw, and nothing
\* is thrown to the caller of set() or setState().
C30_SetNotifiesAll ==
    [][\A v \in Values :
          SetWith(v) =>
              /\ heap'[cur'] = v
              /\ stateChanged'
              /\ notified' = [i \in 1..(Len(subscribers) - 1) |-> <<i + 1, v>>]
              /\ thrown' = "none"]_vars

\* This step is a call of when(), once() or on().
Builds ==
    /\ calls' = calls + 1
    /\ triggerIdCounter' = triggerIdCounter + 1

\* C31: a call of when(), once() or on() returns an id that starts with
\* '__trigger_', that no earlier call of the three has returned, and that was
\* not registered when the call was made; the call does not throw
\* DUPLICATE_TRIGGER, and the trigger is registered under the id.
C31_GeneratedIdsAreFresh ==
    [][Builds =>
          /\ thrown' = "none"
          /\ Len(returned') = Len(returned) + 1
          /\ LET id == returned'[Len(returned')]
             IN  /\ id[1] = "__trigger_"
                 /\ id \notin Range(returned)
                 /\ ~Has(Cur, id)
                 /\ Len(triggers') = Len(triggers) + 1
                 /\ triggers'[Len(triggers')].id = id]_vars

\* This step is loop l waking from its inter-tick sleep.
Wakes(l) ==
    /\ loops[l].pc = "sleep"
    /\ calls' = calls
    /\ Commit(runExecutionLoop(Cur, l))

\* C32: a tick that found the state-change flag set leaves the idle counter
\* at 0 when it ends, with triggers or without; a tick that found it clear
\* adds exactly one; nothing else raises the counter, a pending settle
\* request is resolved only by a tick that raises it, and start() puts it
\* back to 0.
C32_IdleCounter ==
    [][/\ \A l \in Loops :
            /\ (Wakes(l) /\ shouldRun /\ stateChanged) =>
                  /\ ~stateChanged'
                  /\ consecutiveQuietCycles' =
                        IF loops'[l].pc = "sleep" THEN 0 ELSE consecutiveQuietCycles
                  /\ triggers = <<>> => loops'[l].pc = "sleep"
            /\ (Wakes(l) /\ shouldRun /\ ~stateChanged) =>
                  /\ consecutiveQuietCycles' = consecutiveQuietCycles + 1
                  /\ loops'[l].pc = "sleep"
            /\ (loops[l].pc \in Evaluating /\ loops'[l].pc = "sleep") =>
                  consecutiveQuietCycles' = 0
       /\ consecutiveQuietCycles' > consecutiveQuietCycles =>
            \E l \in Loops : Wakes(l) /\ shouldRun /\ ~stateChanged
       /\ (\E r \in DOMAIN requests : ResolvedByTick(r)) =>
            consecutiveQuietCycles' = consecutiveQuietCycles + 1
       /\ (status # Running /\ status' = Running) => consecutiveQuietCycles' = 0]_vars

\* An agent with no trigger has counted an idle tick, taken a settle request,
\* and then run a tick that found the flag set: the counter is back at 0 and
\* the request still waits.
C32_Witness ==
    /\ triggers = <<>> /\ status = Running
    /\ consecutiveQuietCycles = 0
    /\ settleResolvers = <<1>>
    /\ requests[1].sawReset
    /\ \E l \in Loops : loops[l].pc = "sleep"

\* The evaluation loop l has in flight goes on with its trigger in this step,
\* as the protocol says: the next condition after a condition that passed,
\* the delay or the first action after the last one, the first action after
\* the delay, the next action after an action.
GoesOnWith(l) ==
    LET t == loops[l].trigger
        pc == loops[l].pc
        passed == \/ pc = "check" /\ loops[l].result = "true"
                  \/ pc = "cond" /\ ToBoolean(loops[l].result)
        more == IF pc = "check" THEN t.conditions # <<>> ELSE loops[l].ci < Len(t.conditions)
    IN  /\ loops'[l].trigger = t
        /\ loops'[l].state = loops[l].state
        /\ CASE passed /\ more ->
                  loops'[l].pc = "cond" /\ loops'[l].ci = loops[l].ci + 1
             [] passed /\ ~more /\ t.delay > 0 -> loops'[l].pc = "delay"
             [] (passed /\ ~more /\ t.delay = 0) \/ pc = "delay" ->
                  loops'[l].pc = "act" /\ loops'[l].ai = 1
             [] pc = "act" /\ loops[l].ai < Len(t.actions) ->
                  loops'[l].pc = "act" /\ loops'[l].ai = loops[l].ai + 1
             [] OTHER -> FALSE

\* The evaluation loop l has in flight has more to do: its check or its
\* condition has passed, its delay is running, or an action is left to run.
Unfinished(l) ==
    \/ loops[l].pc = "check" /\ loops[l].result = "true"
    \/ loops[l].pc = "cond" /\ ToBoolean(loops[l].result)
    \/ loops[l].pc = "delay"
    \/ loops[l].pc = "act" /\ loops[l].ai < Len(loops[l].trigger.actions)

\* C33: once stop() has been called during a tick, the tick calls the check
\* of no further trigger of its snapshot, and the evaluation in flight is not
\* cut short: its remaining conditions, its delay and its actions follow.
C33_StopEndsTheWalk ==
    [][\A l \in Loops :
          (l \in stopped /\ loops'[l] # loops[l]) =>
              /\ loops'[l].pc # "check"
              /\ Unfinished(l) => GoesOnWith(l)]_vars

\* The actions loop l has run for its trigger, the one settling included,
\* have written to the state object they were given.
Mutated(l) ==
    /\ loops[l].pc = "act"
    /\ \E i \in 1..loops[l].ai : loops[l].trigger.actions[i] \in {"inc", "lateInc"}

\* C34: a tick takes the registered triggers in their order of registration,
\* one after the other, from the list it made when it began; and what the
\* actions of one trigger wrote to the state is what the next trigger of the
\* tick is evaluated against.
C34_SerialWalk ==
    [][\A l \in Loops :
          /\ (loops[l].pc \in {"none", "sleep"} /\ loops'[l].pc = "check") =>
                TakesUp(l, triggers)
          /\ (Leaves(l) /\ loops'[l].pc = "check") =>
                /\ TakesUp(l, loops[l].snapshot)
                /\ Mutated(l) => loops'[l].state = loops[l].state]_vars

\* Loop l holds a check or a condition that passed, with no condition left.
AllPassed(l) ==
    \/ /\ loops[l].pc = "check" /\ loops[l].result = "true"
       /\ loops[l].trigger.conditions = <<>>
    \/ /\ loops[l].pc = "cond" /\ ToBoolean(loops[l].result)
       /\ loops[l].ci = Len(loops[l].trigger.conditions)

\* C35: the actions of a trigger with a delay start when its delay is over,
\* and the delay starts when the check and every condition have passed; the
\* end of the delay starts the actions of the same trigger on the same state
\* object, whatever setState() or stop() did meanwhile; while the delay runs
\* no check, condition or action of another evaluation is called and the idle
\* counter does not grow.
C35_DelayThenActions ==
    [][\A l \in Loops :
          /\ (RunsActions(l) /\ loops'[l].trigger.delay > 0) => loops[l].pc = "delay"
          /\ (loops'[l].pc = "delay" /\ loops[l].pc # "delay") => AllPassed(l)
          /\ (loops[l].pc = "delay" /\ loops'[l].pc # "delay") =>
                /\ RunsActions(l)
                /\ loops'[l].trigger = loops[l].trigger
                /\ loops'[l].state = loops[l].state
          /\ loops[l].pc = "delay" =>
                /\ \A l2 \in Loops \ {l} : ~Invokes(l2)
                /\ consecutiveQuietCycles' <= consecutiveQuietCycles]_vars

\* The error the action settling in loop l has thrown, if it has.
LastError(l) ==
    LET a == loops[l].trigger.actions[loops[l].ai]
    IN  CASE a = "throws" -> <<"action">>
          [] a = "throwsValue" -> <<"Error: oops">>
          [] OTHER -> <<>>

\* C36: when the action list of a fire-once trigger has been run to its end,
\* with errors or without, the trigger is no longer registered, and the error
\* callback has received the errors of the actions and nothing else, also
\* when an action of the list had removed the trigger; a check or a condition
\* of a fire-once trigger that does not pass leaves the registry as it is.
C36_OnceIsRemovedAfterActions ==
    [][\A l \in Loops :
          /\ (EndsActions(l) /\ ~loops[l].trigger.repeat) =>
                /\ ~Has(CurNext, loops[l].trigger.id)
                /\ errorSink' = errorSink \o loops[l].errors \o LastError(l)
                /\ loops'[l].pc \in {"sleep", "check"}
          /\ (/\ loops[l].pc \in {"check", "cond"} /\ ~loops[l].trigger.repeat
              /\ ~ToBoolean(loops[l].result) /\ loops'[l] # loops[l]) =>
                /\ triggers' = triggers
                /\ ~RunsActions(l)]_vars

\* A fire-once trigger whose first action removed it has run its list to the
\* end: it is gone, it has fired once, and the callback has received nothing.
C36_Witness ==
    /\ triggers = <<>> /\ errorSink = <<>>
    /\ Lookup(fired, generateTriggerId(1)) = 1
    /\ \E l \in Loops : loops[l].pc = "sleep"

\* C37: no listener has seen more emissions of its event than were made
\* while the agent was Running since the last start(), and while the agent is
\* Running the emission counter of an event holds exactly those: what
\* emitEvent() is called with while the agent is Idle or Stopped is wiped by
\* start() before any check looks at it.
C37_EmissionsBeforeStartAreDropped ==
    \A e \in Events :
        /\ \A id \in Listening(Cur, e) : Watermark(Cur, e, id) <= Lookup(heard, e)
        /\ status = Running => Lookup(eventEmissionCount, e) = Lookup(heard, e)

\* Two listeners of 'x' are registered, 'x' was emitted while the agent was
\* not Running, the agent has been started and its first tick is over: no
\* listener has fired.
C37_Witness ==
    /\ status = Running /\ calls = 2
    /\ Len(triggers) = 2 /\ Cardinality(Listening(Cur, "x")) = 2
    /\ heard = EmptyMap /\ fired = EmptyMap
    /\ ~stateChanged /\ loops[1].pc = "sleep"

\* C38: a check, a condition or an action is called only for a trigger that
\* is registered at that moment, so none is called for a trigger that
\* removeTrigger() or clearTriggers() has removed, whatever tick had listed
\* it; and the watermark maps hold entries of registered triggers only.
C38_RemovedTriggersAreSilent ==
    [][/\ \A l \in Loops : Invokes(l) => loops'[l].trigger \in Range(triggers')
       /\ \A e \in DOMAIN eventLastSeenByTrigger' :
             \A id \in DOMAIN eventLastSeenByTrigger'[e] : Has(CurNext, id)]_vars

\* Loop l calls, in this step, the check of an on() trigger, and the check
\* returns true.
HearsEmission(l) ==
    /\ loops'[l] # loops[l] /\ loops'[l].pc = "check"
    /\ loops'[l].trigger.check = "event" /\ loops'[l].result = "true"

\* C39: the check of an on() trigger returns true only for an emission count
\* above the trigger's watermark, and leaves the watermark at the count; the
\* watermark does not go back when the conditions fail, nor at any step but
\* start(); the conditions of an on() trigger are begun only by a check that
\* returned true, and its actions only by that check or its last condition.
C39_OneTestPerEmission ==
    [][/\ \A l \in Loops :
             LET t == loops'[l].trigger
             IN  /\ HearsEmission(l) =>
                       /\ status' = status =>
                             Watermark(Cur, t.event, t.id) < Lookup(eventEmissionCount, t.event)
                       /\ Watermark(CurNext, t.event, t.id) =
                             Lookup(eventEmissionCount', t.event)
                 /\ (t.check = "event" /\ loops'[l] # loops[l]
                       /\ loops'[l].pc = "cond" /\ loops'[l].ci = 1) =>
                       loops[l].pc = "check" /\ loops[l].result = "true"
                 /\ (t.check = "event" /\ RunsActions(l)) =>
                       /\ loops[l].pc \in {"check", "cond"}
                       /\ AllPassed(l)
       /\ status' = status =>
             \A e \in Events : \A id \in Listening(Cur, e) :
                 Watermark(CurNext, e, id) >= Watermark(Cur, e, id)]_vars

\* The listener behind a condition that fails has seen the one emission of
\* 'x', its tick is over, and nothing has fired.
C39_Witness ==
    /\ status = Running /\ Len(triggers) = 1
    /\ triggers[1].conditions = <<"true", "false">>
    /\ Lookup(eventEmissionCount, "x") = 1
    /\ Watermark(Cur, "x", triggers[1].id) = 1
    /\ fired = EmptyMap /\ ~stateChanged
    /\ \E l \in Loops : loops[l].pc = "sleep"

\* The requests that have had no outcome.
Unanswered == {r \in DOMAIN requests : requests[r].calls = <<>>}

\* C40: no settle() request has had two outcomes; the pending list holds,
\* once each, exactly the requests that have had none, and those are the
\* requests whose timer is armed, so that each of them still gets one; the
\* list is empty while the agent is not Running.
C40_OneOutcomePerRequest ==
    /\ \A r \in DOMAIN requests :
          /\ Len(requests[r].calls) <= 1
          /\ requests[r].calls \in
                {<<>>, <<"resolve">>, <<"SETTLE_TIMEOUT">>, <<"AGENT_STOPPED">>}
          /\ requests[r].timeoutId <=> r \in Unanswered
    /\ Range(settleResolvers) = Unanswered
    /\ Len(settleResolvers) = Cardinality(Unanswered)
    /\ status # Running => settleResolvers = <<>>

\* Of two requests that were pending together, the first has timed out and
\* the second has been resolved by a tick.
C40_Witness ==
    /\ Len(requests) = 2
    /\ requests[1].calls = <<"SETTLE_TIMEOUT">>
    /\ requests[2].calls = <<"resolve">> /\ ~requests[2].immediate
    /\ requests[1].context.currentQuietCycles < requests[2].quietCycles
====
